---------------------------- MODULE Spec2Model ----------------------------
(***************************************************************************)
(* A model of the OpenFA shape (SH) record decoder of libs/sh, of the i386  *)
(* instruction disassembler of libs/i386, and of the record loop of         *)
(* RawShRenderer::add_shape_to_render with the i386 interpreter it drives.  *)
(*                                                                         *)
(* Bytes are the integers 0..255.  A Rust slice is a sequence; the         *)
(* operators below index it from 0 as the source does.  A Rust panic (a    *)
(* failed assert!, an out-of-range index or slice, unwrap() of None) ends  *)
(* the call with result "panic".  A read through a transmuted slice that   *)
(* goes past the end of the buffer is undefined behaviour: it yields any   *)
(* value of Garbage or ends the call with result "fault".                  *)
(***************************************************************************)
EXTENDS Integers, Sequences, FiniteSets, TLC

VARIABLES
    code,       \* pe.code: the flat code buffer handed to _read_sections
    offset,     \* _read_sections: the cursor into code
    instr,      \* _read_sections: the records consumed so far
    sections,   \* _read_sections: the section list it returns
    pc,         \* the position inside CpuShape::new
    result,     \* how CpuShape::new ended: "none" while it runs
    tags,       \* the relocation tags of _apply_tags, as format_sections leaves them
    lines,      \* the number of output lines CpuShape::new returns
    dcode,      \* Instr::disassemble: the byte buffer
    ip,         \* Instr::disassemble: the cursor
    instrs,     \* Instr::disassemble: the instructions decoded so far
    dresult,    \* how Instr::disassemble ended: "none" while it runs
    derr,       \* the DisassemblyError it returned
    sh,         \* add_shape_to_render: the shape (its trampolines and records)
    draw_mode,  \* add_shape_to_render: the DrawMode and stop_at_offset
    interp,     \* add_shape_to_render: the i386::Interpreter
    roffset,    \* add_shape_to_render: offset, the index of the current record
    byte_offset,    \* add_shape_to_render: the byte offset of the current record
    section_close,  \* add_shape_to_render: Some(offset) as <<offset>>, None as <<>>
    damage_target,  \* add_shape_to_render: Some(offset) as <<offset>>, None as <<>>
    rpc,        \* the position inside add_shape_to_render
    geo,        \* TerrainGeoBuffer: the detail levels and the fields new derives
    patch,      \* TerrainGeoBuffer::patch_offset: the last call and its result
    subdiv,     \* test_subdivision_vertex_counts: the loop over `expect`
    world,      \* the entities with a ShapeMesh: entity id -> shape id
    chunks,     \* ShapeChunkManager: the chunk index of every uploaded shape
    blocks,     \* shape_instance ShapeRenderer.blocks
    upload_block_map,   \* shape_instance ShapeRenderer.upload_block_map
    slot_call,  \* what ensure_entity_slot last returned for each entity
    instances,  \* draw/shape ShapeRenderer.instances: handle -> transform_states
    last_instance_handle,   \* draw/shape ShapeRenderer.last_instance_handle
    uniforms,   \* ShapeRenderer::before_render: the uniform array
    uniforms_offset,    \* ShapeRenderer::before_render: the offset into it
    pending,    \* before_render: the instances the loop has yet to visit
    upc         \* the position inside ShapeRenderer::before_render

vars == <<code, offset, instr, sections, pc, result, tags, lines,
          dcode, ip, instrs, dresult, derr,
          sh, draw_mode, interp, roffset, byte_offset, section_close,
          damage_target, rpc,
          geo, patch, subdiv,
          world, chunks, blocks, upload_block_map, slot_call,
          instances, last_instance_handle, uniforms, uniforms_offset, pending, upc>>

shapeVars == <<code, offset, instr, sections, pc, result, tags, lines>>
disVars == <<dcode, ip, instrs, dresult, derr>>
renderVars == <<sh, draw_mode, interp, roffset, byte_offset, section_close,
                damage_target, rpc>>
terrainVars == <<geo, patch, subdiv>>
slotVars == <<world, chunks, blocks, upload_block_map, slot_call>>
uniformVars == <<instances, last_instance_handle, uniforms, uniforms_offset,
                 pending, upc>>
extVars == <<terrainVars, slotVars, uniformVars>>

-----------------------------------------------------------------------------
(* Bounds of the model. *)

\* The number of records of a generated shape.
MaxRecords == 2

\* The number of chunks a code buffer of the decoder runs is built from.
MaxChunks == 2

\* The largest vertex count of the generated vertex buffers.
MaxVerts == 2

\* The largest index count of the generated facets.
MaxIndices == 2

\* The longest payload of the generated x86 code blocks.
MaxX86Len == 6

\* The longest byte buffer over DisBytes handed to the disassembler.
MaxDisLen == 2

\* The largest number of instructions of DisUnits in a buffer of the disassembler.
MaxDisUnits == 2

\* The largest number of relocations of the generated executable images.
MaxRelocs == 1

\* The largest patch number patch_offset is called with.
MaxPatches == 3

\* The number of entities of the world and the largest number of instance
\* blocks the renderer builds.
MaxEntities == 3
MaxBlocks == 2

\* The number of slots of an instance block of the model.
MaxSlots == 3

\* The largest number of shape instances registered with the shape renderer.
MaxInstances == 3

-----------------------------------------------------------------------------
(* Slices and integers. *)

\* The values a read past the end of the buffer is modelled to yield.
Garbage == {0, 255}

\* data[i] for a 0-based index i inside the slice.
At(data, i) == data[i + 1]

\* &data[a..b], for a <= b <= len.
Slice(data, a, b) == SubSeq(data, a + 1, b)

\* &data[a..], for a <= len.
SliceFrom(data, a) == SubSeq(data, a + 1, Len(data))

\* A little-endian u16 from its two bytes.
LE16(lo, hi) == lo + 256 * hi

\* (s as i16): the two's complement reading of a u16.
AsI16(w) == IF w >= 32768 THEN w - 65536 ELSE w

\* Bit n of a 16-bit word.
Bit(w, n) == (w \div (2 ^ n)) % 2 = 1

RECURSIVE SeqMax(_)
SeqMax(s) == IF Len(s) = 1 THEN s[1]
             ELSE LET m == SeqMax(Tail(s)) IN IF s[1] > m THEN s[1] ELSE m

RECURSIVE SeqMin(_)
SeqMin(s) == IF Len(s) = 1 THEN s[1]
             ELSE LET m == SeqMin(Tail(s)) IN IF s[1] < m THEN s[1] ELSE m

\* The outcome of one from_bytes call: Ok(record of `size` bytes), Err, a panic,
\* or a fault of undefined behaviour.
Ok(size, data, aux) == [st |-> "Ok", size |-> size, data |-> data, aux |-> aux]
Fail(st) == [st |-> st, size |-> 0, data |-> <<>>, aux |-> <<>>]

-----------------------------------------------------------------------------
(* read_name and the records with a name. *)

\* n.iter().position(|&c| c == 0): the 0-based place of the first NUL, or -1.
RECURSIVE PositionNul(_, _)
PositionNul(n, i) ==
    IF i >= Len(n) THEN -1
    ELSE IF At(n, i) = 0 THEN i
    ELSE PositionNul(n, i + 1)

\* str::from_utf8(s).is_ok(): well-formed UTF-8, as the standard library checks it.
RECURSIVE Utf8Valid(_)
Utf8Valid(s) ==
    LET n == Len(s)
        Cont(i) == i <= n /\ s[i] >= 128 /\ s[i] <= 191
        In(i, lo, hi) == i <= n /\ s[i] >= lo /\ s[i] <= hi
        Rest(k) == Utf8Valid(SubSeq(s, k + 1, n))
    IN  IF n = 0 THEN TRUE
        ELSE IF s[1] < 128 THEN Rest(1)
        ELSE IF s[1] >= 194 /\ s[1] <= 223 THEN Cont(2) /\ Rest(2)
        ELSE IF s[1] = 224 THEN In(2, 160, 191) /\ Cont(3) /\ Rest(3)
        ELSE IF s[1] = 237 THEN In(2, 128, 159) /\ Cont(3) /\ Rest(3)
        ELSE IF s[1] >= 225 /\ s[1] <= 239 THEN Cont(2) /\ Cont(3) /\ Rest(3)
        ELSE IF s[1] = 240 THEN In(2, 144, 191) /\ Cont(3) /\ Cont(4) /\ Rest(4)
        ELSE IF s[1] >= 241 /\ s[1] <= 243 THEN Cont(2) /\ Cont(3) /\ Cont(4) /\ Rest(4)
        ELSE IF s[1] = 244 THEN In(2, 128, 143) /\ Cont(3) /\ Cont(4) /\ Rest(4)
        ELSE FALSE

\* read_name(n): Ok(the bytes before the first NUL), or Err when there is no NUL
\* ("no terminator") or the bytes are not UTF-8.  The result is [ok, name].
read_name_KeepsNul(n) ==
    LET end_offset == PositionNul(n, 0) IN
    IF end_offset < 0 THEN [ok |-> FALSE, name |-> <<>>]
    ELSE IF ~Utf8Valid(Slice(n, 0, end_offset)) THEN [ok |-> FALSE, name |-> <<>>]
    ELSE [ok |-> TRUE, name |-> Slice(n, 0, end_offset + 1)]

read_name(n) ==
    LET end_offset == PositionNul(n, 0) IN
    IF end_offset < 0 THEN [ok |-> FALSE, name |-> <<>>]
    ELSE IF ~Utf8Valid(Slice(n, 0, end_offset)) THEN [ok |-> FALSE, name |-> <<>>]
    ELSE [ok |-> TRUE, name |-> Slice(n, 0, end_offset)]

TextureRef_MAGIC == 226
TextureRef_SIZE == 16

\* TextureRef::from_bytes and TextureRef::size.
TextureRef_from_bytes(data) ==
    IF Len(data) < 2 THEN {Fail("panic")}                 \* data[1]
    ELSE IF At(data, 1) # 0 THEN {Fail("panic")}          \* assert_eq!(data[1], 0)
    ELSE IF Len(data) < TextureRef_SIZE THEN {Fail("panic")}   \* &data[2..SIZE]
    ELSE LET r == read_name(Slice(data, 2, TextureRef_SIZE)) IN
         IF ~r.ok THEN {Fail("Err")}
         ELSE {Ok(TextureRef_SIZE, r.name, <<>>)}

SourceRef_MAGIC == 66

\* SourceRef::from_bytes and SourceRef::size: 2 + source.len() + 1.
SourceRef_from_bytes(data) ==
    IF Len(data) < 2 THEN {Fail("panic")}                 \* &data[2..]
    ELSE LET r == read_name(SliceFrom(data, 2)) IN
         IF ~r.ok THEN {Fail("Err")}
         ELSE {Ok(2 + Len(r.name) + 1, r.name, <<At(data, 1)>>)}

-----------------------------------------------------------------------------
(* VertexBuf. *)

VertexBuf_MAGIC == 130

\* The u16 at byte offset b of data, read through a transmuted slice: the bytes
\* inside the buffer as they are, those past its end any value of Garbage.
U16Reads(data, b) ==
    IF b + 1 < Len(data) THEN {LE16(At(data, b), At(data, b + 1))}
    ELSE IF b < Len(data) THEN {LE16(At(data, b), g) : g \in Garbage}
    ELSE {LE16(g, g) : g \in Garbage}

\* Whether a two-byte read at byte offset b of data stays inside the buffer.
InBuffer(data, b) == b + 1 < Len(data)

\* s2f: (s as i16) as f32.  Every i16 is exactly representable, so the vertex
\* coordinate is modelled by the integer.
s2f_Unsigned(s) == s
s2f(s) == AsI16(s)

\* The vertex lists the loop of VertexBuf::from_bytes can produce: word i*3+k of
\* words = transmute(&data[6..]) is the u16 at byte offset 6 + 2*(i*3+k).
RECURSIVE VertexLists(_, _, _)
VertexLists(data, i, nverts) ==
    IF i >= nverts THEN {<<>>}
    ELSE { <<s2f(x), s2f(y), s2f(z)>> \o rest :
             x \in U16Reads(data, 6 + 2 * (i * 3 + 0)),
             y \in U16Reads(data, 6 + 2 * (i * 3 + 1)),
             z \in U16Reads(data, 6 + 2 * (i * 3 + 2)),
             rest \in VertexLists(data, i + 1, nverts) }

\* VertexBuf::size: 6 + verts.len() * 6.
VertexBuf_size(nverts) == 6 + nverts * 6

\* VertexBuf::from_bytes.  data holds the flattened coordinates, aux the field unk0.
VertexBuf_from_bytes(data) ==
    IF Len(data) < 2 THEN {Fail("panic")}                 \* data[1]
    ELSE IF At(data, 1) # 0 THEN {Fail("panic")}          \* assert_eq!(data[1], 0)
    ELSE IF Len(data) < 6 THEN {Fail("panic")}            \* &data[2..6]
    ELSE LET nverts == LE16(At(data, 2), At(data, 3))     \* head[0]
             nwords == Len(data) - 6                      \* words.len()
             ub == ~InBuffer(data, 6)                     \* head[2] reads bytes 6, 7
                   \/ (nverts > 0 /\ ~InBuffer(data, 6 + 2 * (nverts * 3 - 1)))
         IN  IF nverts > 0 /\ nverts * 3 - 1 >= nwords
             THEN {Fail("panic"), Fail("fault")}   \* the reads before words[nwords] left the buffer
             ELSE { Ok(VertexBuf_size(nverts), v, <<unk0>>) :
                      unk0 \in U16Reads(data, 6), v \in VertexLists(data, 0, nverts) }
                  \cup (IF ub THEN {Fail("fault")} ELSE {})

-----------------------------------------------------------------------------
(* Facet. *)

Facet_MAGIC == 252

\* FacetFlags: the bit numbers of the flag word (data[1] << 8) | data[2].
HAVE_MATERIAL == 14
HAVE_TEXCOORDS == 10
USE_SHORT_INDICES == 2
USE_SHORT_MATERIAL == 1
USE_BYTE_TEXCOORDS == 0

\* The width of the material field.
Facet_material_size_Wrong(flags) ==
    IF Bit(flags, HAVE_MATERIAL)
    THEN (IF Bit(flags, USE_SHORT_MATERIAL) THEN 14 ELSE 11)
    ELSE 2
Facet_material_size(flags) ==
    IF Bit(flags, HAVE_MATERIAL)
    THEN (IF Bit(flags, USE_SHORT_MATERIAL) THEN 11 ELSE 14)
    ELSE 2

\* The record length Facet::from_bytes computes before it reads the indices.
Facet_length(flags, index_count) ==
    LET material_size == Facet_material_size(flags)
        index_size == IF Bit(flags, USE_SHORT_INDICES) THEN 2 ELSE 1
        have_tc == Bit(flags, HAVE_TEXCOORDS)
        tc_size == IF Bit(flags, USE_BYTE_TEXCOORDS) THEN 1 ELSE 2
    IN  3 + material_size + 1 + index_count * index_size
          + (IF have_tc THEN index_count * 2 * tc_size ELSE 0)

\* The index lists of a facet with short indices: indices[i] is the u16 at byte
\* offset base + 2*i, read through a transmuted slice.
RECURSIVE ShortIndexLists(_, _, _, _)
ShortIndexLists(data, base, i, index_count) ==
    IF i >= index_count THEN {<<>>}
    ELSE { <<x>> \o rest : x \in U16Reads(data, base + 2 * i),
                          rest \in ShortIndexLists(data, base, i + 1, index_count) }

\* Facet::from_bytes and Facet::size (the stored length).  data holds the indices,
\* aux the flag word, min_index and max_index.
Facet_from_bytes(data) ==
    IF Len(data) < 3 THEN {Fail("panic")}                         \* data[1], data[2]
    ELSE LET flags_word == At(data, 1) * 256 + At(data, 2) IN
    IF (At(data, 2) \div 16) % 16 # 0 THEN {Fail("panic")}        \* flags_word & 0x00F0
    ELSE LET material_size == Facet_material_size(flags_word) IN
    IF Len(data) <= 3 + material_size THEN {Fail("panic")}        \* data[3 + material_size]
    ELSE LET index_count == At(data, 3 + material_size)
             length == Facet_length(flags_word, index_count)
             base == 3 + material_size + 1
             nbase == Len(data) - base                            \* index_base.len()
         IN  IF index_count > nbase
             THEN \* indices[nbase] or index_base[nbase] is out of range
                  {Fail("panic")}
                    \cup (IF Bit(flags_word, USE_SHORT_INDICES) /\ nbase > 0
                          THEN {Fail("fault")} ELSE {})
             ELSE IF index_count = 0 THEN {Fail("panic")}         \* max().unwrap()
             ELSE IF Bit(flags_word, USE_SHORT_INDICES)
             THEN { Ok(length, ix, <<flags_word, SeqMin(ix), SeqMax(ix)>>) :
                       ix \in ShortIndexLists(data, base, 0, index_count) }
                  \cup (IF ~InBuffer(data, base + 2 * (index_count - 1))
                        THEN {Fail("fault")} ELSE {})
             ELSE LET ix == [i \in 1..index_count |-> At(data, base + i - 1)]
                  IN  {Ok(length, ix, <<flags_word, SeqMin(ix), SeqMax(ix)>>)}

-----------------------------------------------------------------------------
(* X86Code. *)

X86Code_MAGIC == 240

\* The words after a 0xC3 that X86Code::from_bytes skips instead of ending the block.
X86SkipWords == {72, 0, 1382, 1515, 59472, 35174}
    \* 0x0048, 0x0000, 0x0566, 0x05EB, 0xE850, 0x8966

\* The advance for the byte the scan stands on: push dword, op reg imm32, other.
X86Advance_Wrong(b) == IF b = 104 THEN 5 ELSE IF b = 129 THEN 5 ELSE 1
X86Advance(b) == IF b = 104 THEN 5 ELSE IF b = 129 THEN 6 ELSE 1

\* The loop of X86Code::from_bytes from the cursor `end` into buf = &data[2..]:
\* the values of `end` it can leave the loop with, or -1 for a panic and -2 for
\* a fault inside the loop.
RECURSIVE X86Loop(_, _)
X86Loop(data, end) ==
    LET buflen == Len(data) - 2
        buf(i) == At(data, 2 + i)
    IN  IF end >= buflen THEN {end}
        ELSE IF buf(end) = 195
        THEN LET e1 == end + 1
                 left == Len(data) - (2 + e1)             \* next_code.len()
                 After(w) ==
                     IF w \in X86SkipWords
                     THEN (IF e1 + 2 >= buflen THEN {-1}  \* buf[end] out of range
                           ELSE X86Loop(data, e1 + 2 + X86Advance(buf(e1 + 2))))
                     ELSE {e1}
             IN  IF left = 0 THEN {-1}                    \* next_code[0] of an empty slice
                 ELSE IF left = 1
                 THEN {-2} \cup UNION {After(w) : w \in U16Reads(data, 2 + e1)}
                 ELSE After(LE16(At(data, 2 + e1), At(data, 2 + e1 + 1)))
        ELSE X86Loop(data, end + X86Advance(buf(end)))

\* X86Code::from_bytes and X86Code::size: code.len() + 2.
X86Code_from_bytes(data) ==
    IF Len(data) < 2 THEN {Fail("panic")}                 \* data[1]
    ELSE IF At(data, 1) # 0 THEN {Fail("panic")}          \* assert_eq!(data[1], 0)
    ELSE { IF end = -1 THEN Fail("panic")
           ELSE IF end = -2 THEN Fail("fault")
           ELSE IF end > Len(data) - 2 THEN Fail("panic") \* buf[0..end]
           ELSE Ok(end + 2, Slice(data, 2, 2 + end), <<>>) :
           end \in X86Loop(data, 0) }

-----------------------------------------------------------------------------
(* The fixed-size records and the other records without a decoded payload. *)

\* opaque_instr!(name, magic, size), in the order of the source.
OpaqueTable == <<
    [name |-> "Header", magic |-> 255, size |-> 14],
    [name |-> "Unk46",  magic |-> 70,  size |-> 2],
    [name |-> "UnkB2",  magic |-> 178, size |-> 2],
    [name |-> "Unk12",  magic |-> 18,  size |-> 4],
    [name |-> "Unk48",  magic |-> 72,  size |-> 4],
    [name |-> "UnkAC",  magic |-> 172, size |-> 4],
    [name |-> "UnkB8",  magic |-> 184, size |-> 4],
    [name |-> "UnkCA",  magic |-> 202, size |-> 4],
    [name |-> "UnkD0",  magic |-> 208, size |-> 4],
    [name |-> "UnkDA",  magic |-> 218, size |-> 4],
    [name |-> "UnkE0",  magic |-> 224, size |-> 4],
    [name |-> "UnkF2",  magic |-> 242, size |-> 4],
    [name |-> "UnkA6",  magic |-> 166, size |-> 6],
    [name |-> "UnkC8",  magic |-> 200, size |-> 8],
    [name |-> "Unk66",  magic |-> 102, size |-> 10],
    [name |-> "Unk7A",  magic |-> 122, size |-> 10],
    [name |-> "Unk78",  magic |-> 120, size |-> 12],
    [name |-> "UnkC4",  magic |-> 196, size |-> 16],
    [name |-> "Unk0C",  magic |-> 12,  size |-> 17],
    [name |-> "Unk0E",  magic |-> 14,  size |-> 17],
    [name |-> "Unk10",  magic |-> 16,  size |-> 17],
    [name |-> "Unk6C",  magic |-> 108, size |-> 13],
    [name |-> "Unk06",  magic |-> 6,   size |-> 21] >>

OpaqueNames == {OpaqueTable[i].name : i \in DOMAIN OpaqueTable}

OpaqueEntry(name) ==
    OpaqueTable[CHOOSE i \in DOMAIN OpaqueTable : OpaqueTable[i].name = name]

\* from_bytes and size of a record declared by opaque_instr!.
Opaque_from_bytes(name, data) ==
    LET SIZE == OpaqueEntry(name).size IN
    IF Len(data) < 2 THEN {Fail("panic")}                 \* data[1]
    ELSE IF At(data, 1) # 0 /\ At(data, 1) # 255 THEN {Fail("panic")}
    ELSE IF Len(data) < SIZE THEN {Fail("panic")}         \* &data[2..SIZE]
    ELSE {Ok(SIZE, Slice(data, 2, SIZE), <<>>)}

UnkCE_MAGIC == 206
UnkCE_SIZE == 40

\* UnkCE::from_bytes: s = &data[2..] and the 38 bytes s[0] .. s[37].
UnkCE_from_bytes(data) ==
    IF Len(data) < 2 THEN {Fail("panic")}                 \* data[1]
    ELSE IF At(data, 1) # 0 THEN {Fail("panic")}          \* assert_eq!(data[1], 0)
    ELSE IF Len(data) < UnkCE_SIZE THEN {Fail("panic")}   \* s[37]
    ELSE {Ok(UnkCE_SIZE, Slice(data, 2, UnkCE_SIZE), <<>>)}

UnkBC_MAGIC == 188

\* The length UnkBC::from_bytes takes from the flags byte; 0 stands for bail!.
UnkBC_length(flags) ==
    IF flags = 150 THEN 8               \* 0x96
    ELSE IF flags = 114 THEN 6          \* 0x72
    ELSE IF flags = 104 THEN 10         \* 0x68
    ELSE IF flags = 8 THEN 6            \* 0x08
    ELSE 0

\* UnkBC::from_bytes and UnkBC::size.  aux holds flags and unk0.
UnkBC_from_bytes(data) ==
    IF Len(data) < 4 THEN {Fail("panic")}                 \* data[2], data[3]
    ELSE LET flags == At(data, 2)
             length == UnkBC_length(flags)
         IN  IF length = 0 THEN {Fail("Err")}             \* unknown section BC flags
             ELSE IF Len(data) < length THEN {Fail("panic")}   \* data[4..length]
             ELSE {Ok(length, Slice(data, 4, length), <<flags, At(data, 3)>>)}

\* Unk40 declares the tag of UnkBC.
Unk40_MAGIC == 188

\* The words words[1..count + 1] of Unk40::from_bytes, words = transmute(&data[2..]).
RECURSIVE Unk40Words(_, _, _)
Unk40Words(data, i, count) ==
    IF i > count THEN {<<>>}
    ELSE { <<x>> \o rest : x \in U16Reads(data, 2 + 2 * i),
                          rest \in Unk40Words(data, i + 1, count) }

\* Unk40::from_bytes and Unk40::size: 4 + count * 2.
Unk40_from_bytes(data) ==
    IF At(data, 0) # Unk40_MAGIC THEN {Fail("panic")}     \* assert_eq!(data[0], MAGIC)
    ELSE IF Len(data) < 2 THEN {Fail("panic")}            \* data[1]
    ELSE IF At(data, 1) # 0 THEN {Fail("panic")}          \* assert_eq!(data[1], 0)
    ELSE IF Len(data) = 2 THEN {Fail("panic")}            \* words[0] of an empty slice
    ELSE LET nwords == Len(data) - 2 IN
         UNION { LET count == w IN
                 IF count + 1 > nwords THEN {Fail("panic"), Fail("fault")}
                 ELSE { Ok(4 + count * 2, ws, <<count>>) :
                           ws \in Unk40Words(data, 1, count) }
                      \cup (IF ~InBuffer(data, 2 + 2 * count)
                            THEN {Fail("fault")} ELSE {})
                 : w \in U16Reads(data, 2) }

UnkF6_MAGIC == 246
UnkF6_SIZE == 7
Unk38_MAGIC == 56
Unk38_SIZE == 3

\* UnkF6::from_bytes and Unk38::from_bytes: the SIZE - 1 bytes after the tag.
NoPad_from_bytes(SIZE, data) ==
    IF Len(data) < SIZE THEN {Fail("panic")}              \* &data[1..SIZE]
    ELSE {Ok(SIZE, Slice(data, 1, SIZE), <<>>)}

\* TrailerUnknown::from_bytes and TrailerUnknown::size: all the remaining bytes.
TrailerUnknown_from_bytes(data) == {Ok(Len(data), data, <<>>)}

-----------------------------------------------------------------------------
(* The tag dispatch of CpuShape::_read_sections. *)

\* The record kinds in the order of the if / else-if chain, each with its MAGIC
\* (the chain tests Unk78 before Unk7A; their tags differ).
DispatchChain ==
    [i \in DOMAIN OpaqueTable |-> [name |-> OpaqueTable[i].name,
                                   magic |-> OpaqueTable[i].magic]]
    \o << [name |-> "UnkCE",      magic |-> UnkCE_MAGIC],
          [name |-> "UnkBC",      magic |-> UnkBC_MAGIC],
          [name |-> "UnkF6",      magic |-> UnkF6_MAGIC],
          [name |-> "Unk38",      magic |-> Unk38_MAGIC],
          [name |-> "Unk40",      magic |-> Unk40_MAGIC],
          [name |-> "TextureRef", magic |-> TextureRef_MAGIC],
          [name |-> "SourceRef",  magic |-> SourceRef_MAGIC],
          [name |-> "VertexBuf",  magic |-> VertexBuf_MAGIC],
          [name |-> "Facet",      magic |-> Facet_MAGIC],
          [name |-> "X86Code",    magic |-> X86Code_MAGIC] >>

\* The branch taken for the tag byte b: "Skip1E", the first kind of the chain
\* whose MAGIC is b, or the final else, "TrailerUnknown".
Dispatch(b) ==
    IF b = 30 THEN "Skip1E"
    ELSE IF \E i \in DOMAIN DispatchChain : DispatchChain[i].magic = b
    THEN LET first == CHOOSE i \in DOMAIN DispatchChain :
                         /\ DispatchChain[i].magic = b
                         /\ \A j \in 1..(i - 1) : DispatchChain[j].magic # b
         IN  DispatchChain[first].name
    ELSE "TrailerUnknown"

\* $name::from_bytes(&pe.code[offset..]) for the kind the dispatch chose.
from_bytes(kind, data) ==
    IF kind \in OpaqueNames THEN Opaque_from_bytes(kind, data)
    ELSE IF kind = "UnkCE" THEN UnkCE_from_bytes(data)
    ELSE IF kind = "UnkBC" THEN UnkBC_from_bytes(data)
    ELSE IF kind = "UnkF6" THEN NoPad_from_bytes(UnkF6_SIZE, data)
    ELSE IF kind = "Unk38" THEN NoPad_from_bytes(Unk38_SIZE, data)
    ELSE IF kind = "Unk40" THEN Unk40_from_bytes(data)
    ELSE IF kind = "TextureRef" THEN TextureRef_from_bytes(data)
    ELSE IF kind = "SourceRef" THEN SourceRef_from_bytes(data)
    ELSE IF kind = "VertexBuf" THEN VertexBuf_from_bytes(data)
    ELSE IF kind = "Facet" THEN Facet_from_bytes(data)
    ELSE IF kind = "X86Code" THEN X86Code_from_bytes(data)
    ELSE TrailerUnknown_from_bytes(data)

-----------------------------------------------------------------------------
(* CpuShape::new and the loop of CpuShape::_read_sections. *)

ShowModes == {"AllOneLine", "AllPerLine", "UnknownFacet", "UnknownMinus",
              "Unknown", "Custom"}

\* consume_instr!: the record pushed to instr.  `at` is the cursor the record was
\* read at; the source keeps it only in `offset`.
Record(kind, at, out) ==
    [kind |-> kind, at |-> at, size |-> out.size, data |-> out.data, aux |-> out.aux]

\* consume_instr!: $offset += sz.
AdvanceOffset(off, sz) == off + sz

\* &pe.code[offset..]
Remaining == SliceFrom(code, offset)

\* The kind the dispatch chooses at the cursor.
KindAtCursor == Dispatch(At(code, offset))

\* peff::PE::parse(data) fails: CpuShape::new returns the error "parse pe".
NewParseFails ==
    /\ pc = "new"
    /\ pc' = "done"
    /\ result' = "Err"
    /\ UNCHANGED <<code, offset, instr, sections, tags, lines, disVars, renderVars, extVars>>

\* peff::PE::parse(data) succeeds and _read_sections starts: offset = 0.
NewParse ==
    /\ pc = "new"
    /\ pc' = "loop"
    /\ UNCHANGED <<code, offset, instr, sections, result, tags, lines, disVars, renderVars, extVars>>

\* assert!(offset < pe.code.len()) at the head of the loop fails.
LoopAssertFails ==
    /\ pc = "loop"
    /\ ~(offset < Len(code))
    /\ pc' = "done"
    /\ result' = "panic"
    /\ UNCHANGED <<code, offset, instr, sections, tags, lines, disVars, renderVars, extVars>>

\* _code[0] at the head of the loop reads two bytes where one is left: the read
\* past the buffer can fault (its value is only printed).
LoopPeekFaults ==
    /\ pc = "loop"
    /\ offset = Len(code) - 1
    /\ pc' = "done"
    /\ result' = "fault"
    /\ UNCHANGED <<code, offset, instr, sections, tags, lines, disVars, renderVars, extVars>>

\* code[0] == 0x1E: offset += 1, and no record.
Skip1E ==
    /\ pc = "loop"
    /\ offset < Len(code)
    /\ KindAtCursor = "Skip1E"
    /\ offset' = offset + 1
    /\ UNCHANGED <<code, instr, sections, pc, result, tags, lines, disVars, renderVars, extVars>>

\* consume_instr! for the kind at the cursor, from_bytes returning Ok.
Consume ==
    /\ pc = "loop"
    /\ offset < Len(code)
    /\ KindAtCursor \notin {"Skip1E", "TrailerUnknown"}
    /\ \E out \in from_bytes(KindAtCursor, Remaining) :
          /\ out.st = "Ok"
          /\ instr' = Append(instr, Record(KindAtCursor, offset, out))
          /\ offset' = AdvanceOffset(offset, out.size)
    /\ UNCHANGED <<code, sections, pc, result, tags, lines, disVars, renderVars, extVars>>

\* consume_instr! with from_bytes returning Err: the `?` returns it from
\* _read_sections, and CpuShape::new returns it as "read sections".
ConsumeErr ==
    /\ pc = "loop"
    /\ offset < Len(code)
    /\ KindAtCursor \notin {"Skip1E", "TrailerUnknown"}
    /\ \E out \in from_bytes(KindAtCursor, Remaining) : out.st = "Err"
    /\ pc' = "done"
    /\ result' = "Err"
    /\ UNCHANGED <<code, offset, instr, sections, tags, lines, disVars, renderVars, extVars>>

\* consume_instr! with from_bytes panicking, or faulting on a read past the buffer.
ConsumeAborts ==
    /\ pc = "loop"
    /\ offset < Len(code)
    /\ KindAtCursor \notin {"Skip1E", "TrailerUnknown"}
    /\ \E out \in from_bytes(KindAtCursor, Remaining) :
          /\ out.st \in {"panic", "fault"}
          /\ result' = out.st
    /\ pc' = "done"
    /\ UNCHANGED <<code, offset, instr, sections, tags, lines, disVars, renderVars, extVars>>

\* The final else: the remaining bytes become a TrailerUnknown record, the loop
\* breaks, and _read_sections returns Ok((shape, sections)).
Trailer ==
    /\ pc = "loop"
    /\ offset < Len(code)
    /\ KindAtCursor = "TrailerUnknown"
    /\ \E out \in from_bytes("TrailerUnknown", Remaining) :
          /\ instr' = Append(instr, Record("TrailerUnknown", offset, out))
          /\ offset' = AdvanceOffset(offset, out.size)
    /\ pc' = "read"
    /\ UNCHANGED <<code, sections, result, tags, lines, disVars, renderVars, extVars>>

-----------------------------------------------------------------------------
(* CpuShape::_apply_tags and format_sections: the tail of CpuShape::new.        *)
(* A u32 is the pair <<high 16 bits, low 16 bits>>.                             *)

\* dwords[0] of transmute(&pe.code[reloc..]): the little-endian u32 at reloc.
LE32At(data, r) ==
    << LE16(At(data, r + 2), At(data, r + 3)), LE16(At(data, r), At(data, r + 1)) >>

\* v + k and v - k for a small k, with the flag of a u32 overflow: a debug build
\* panics on it, a release build wraps.
U32Add(v, k) ==
    LET lo == v[2] + k
        hi == v[1] + (lo \div 65536)
    IN  [v |-> <<hi % 65536, lo % 65536>>, ovf |-> hi >= 65536]

U32Sub(v, k) ==
    LET lo == v[2] - k
        borrow == IF lo < 0 THEN 1 ELSE 0
        hi == v[1] - borrow
    IN  [v |-> <<(hi + 65536) % 65536, (lo + 65536) % 65536>>, ovf |-> hi < 0]

U32Lt(a, b) == a[1] < b[1] \/ (a[1] = b[1] /\ a[2] < b[2])

\* The outcome of _apply_tags that stands for a panic.
PanicTags == << [kind |-> "panic", offset |-> 0, length |-> 0] >>

\* The tags _apply_tags pushes for one relocation, as a set of outcomes: a
\* sequence of tags, or PanicTags.  thunks is pe.thunks: [some, keys], the keys
\* being the addresses of the thunk table (a tag's name is a function of the
\* pointer stored at its offset, and is left out).
RelocTags_NoUpperAssert(reloc, thunks, code_vaddr) ==
    IF ~(reloc + 4 <= Len(code)) THEN {PanicTags}
    ELSE LET thunk_ptr == LE32At(code, reloc) IN
    IF ~thunks.some THEN {<<>>}
    ELSE IF thunk_ptr \in thunks.keys \/ U32Sub(thunk_ptr, 2).v \in thunks.keys
    THEN {IF thunk_ptr \in thunks.keys
          THEN << [kind |-> "RelocatedCall", offset |-> reloc, length |-> 4] >>
          ELSE PanicTags}
    ELSE {IF ~U32Lt(code_vaddr, thunk_ptr) THEN PanicTags
          ELSE << [kind |-> "RelocatedRef", offset |-> reloc, length |-> 4],
                  [kind |-> "RelocationTarget",
                   offset |-> (thunk_ptr[1] - code_vaddr[1]) * 65536
                                + (thunk_ptr[2] - code_vaddr[2]),
                   length |-> 2] >>}

RelocTags(reloc, thunks, code_vaddr) ==
    IF ~(reloc + 4 <= Len(code)) THEN {PanicTags}       \* assert!(reloc + 4 <= len)
    ELSE LET thunk_ptr == LE32At(code, reloc) IN
    IF ~thunks.some THEN {<<>>}
    ELSE LET less2 == U32Sub(thunk_ptr, 2)
             Call == IF thunk_ptr \in thunks.keys
                     THEN << [kind |-> "RelocatedCall", offset |-> reloc, length |-> 4] >>
                     ELSE PanicTags                     \* thunks[&thunk_ptr]
             bound == U32Sub(U32Add(code_vaddr, Len(code)).v, 4)
             bovf == U32Add(code_vaddr, Len(code)).ovf \/ bound.ovf
             code_offset == (thunk_ptr[1] - code_vaddr[1]) * 65536
                              + (thunk_ptr[2] - code_vaddr[2])
             Ref == IF ~U32Lt(code_vaddr, thunk_ptr) THEN PanicTags
                    ELSE IF U32Lt(bound.v, thunk_ptr) THEN PanicTags
                    ELSE << [kind |-> "RelocatedRef", offset |-> reloc, length |-> 4],
                            [kind |-> "RelocationTarget", offset |-> code_offset,
                             length |-> 2] >>
         IN  IF thunk_ptr \in thunks.keys THEN {Call}
             ELSE (IF less2.ovf THEN {PanicTags} ELSE {})    \* thunk_ptr - 2, debug build
                  \cup (IF less2.v \in thunks.keys THEN {Call}
                        ELSE {Ref}
                               \cup (IF bovf /\ U32Lt(code_vaddr, thunk_ptr)
                                     THEN {PanicTags} ELSE {}))

\* CpuShape::_apply_tags: the outcomes for the relocations relocs[i..].
RECURSIVE apply_tags(_, _, _, _)
apply_tags(relocs, i, thunks, code_vaddr) ==
    IF i > Len(relocs) THEN {<<>>}
    ELSE UNION { IF t = PanicTags THEN {t}
                 ELSE { IF rest = PanicTags THEN rest ELSE t \o rest :
                           rest \in apply_tags(relocs, i + 1, thunks, code_vaddr) }
                 : t \in RelocTags(relocs[i], thunks, code_vaddr) }

\* tags.sort_by(|a, b| a.offset.cmp(&b.offset)): a stable sort.
RECURSIVE SortTags(_)
SortTags(t) ==
    IF Len(t) <= 1 THEN t
    ELSE LET rest == SortTags(Tail(t))
             k == Cardinality({j \in DOMAIN rest : rest[j].offset < t[1].offset})
         IN  SubSeq(rest, 1, k) \o <<t[1]>> \o SubSeq(rest, k + 1, Len(rest))

\* tags.dedup(): consecutive equal tags become one.
RECURSIVE DedupTags(_)
DedupTags(t) ==
    IF Len(t) <= 1 THEN t
    ELSE IF t[1] = t[2] THEN DedupTags(Tail(t))
    ELSE <<t[1]>> \o DedupTags(Tail(t))

\* The assertions of format_sections that no two tags overlap.
TagsAssertHolds(t) ==
    \A i, j \in DOMAIN t :
        j > i => /\ t[i].offset <= t[j].offset
                 /\ \/ t[i].offset + t[i].length <= t[j].offset
                    \/ t[i].offset + t[i].length >= t[j].offset + t[j].length

\* The number of lines format_sections returns for the mode.
FormatLines(mode) ==
    LET Unknown == {i \in DOMAIN sections : sections[i].kind = "Unknown"} IN
    IF mode = "AllOneLine" THEN 1
    ELSE IF mode = "AllPerLine" THEN Len(sections)
    ELSE IF mode \in {"Unknown", "UnknownMinus"} THEN Cardinality(Unknown)
    ELSE IF mode = "UnknownFacet"
    THEN Cardinality({i \in Unknown : /\ sections[i].length > 0
                                       /\ At(code, sections[i].offset) = 252})
    ELSE Cardinality({i \in DOMAIN sections :
                        /\ i > 1
                        /\ sections[i - 1].kind = "Main"
                        /\ sections[i - 1].tag = 252})

\* The executable images CpuShape::new is given, beside the code: relocation
\* offsets at both ends of the code, and for each list of them a thunk table
\* that is absent, empty, or holds the pointer stored at the first relocation
\* (or that pointer less 2), and a base address that puts that pointer before,
\* inside, on the last byte of or after the code.
RelocOffsets == {r \in {0, Len(code) - 4, Len(code) - 3} : r >= 0}

RECURSIVE RelocLists(_)
RelocLists(n) ==
    IF n = 0 THEN {<<>>}
    ELSE LET prev == RelocLists(n - 1) IN
         prev \cup {<<r>> \o l : r \in RelocOffsets, l \in {x \in prev : Len(x) = n - 1}}

\* The base address the viewers load a shape at: 0xAA000000.
BaseVaddr == <<43520, 0>>

ImagesFor(relocs) ==
    LET P == IF relocs # <<>> /\ relocs[1] + 4 <= Len(code)
             THEN {LE32At(code, relocs[1])} ELSE {}
        NoThunks == [some |-> FALSE, keys |-> {}]
        Thunks(keys) == [some |-> TRUE, keys |-> keys]
    IN  {[relocs |-> relocs, thunks |-> NoThunks, code_vaddr |-> BaseVaddr]}
          \cup {[relocs |-> relocs, thunks |-> Thunks({}), code_vaddr |-> v] :
                  v \in {BaseVaddr}
                          \cup {U32Sub(p, k).v : p \in P,
                                   k \in {0, 1, 3, Len(code) - 3, Len(code) - 1}}}
          \cup {[relocs |-> relocs, thunks |-> Thunks({q}), code_vaddr |-> BaseVaddr] :
                  q \in P \cup {U32Sub(p, 2).v : p \in P}}

Images == UNION {ImagesFor(relocs) : relocs \in RelocLists(MaxRelocs)}

\* The outcomes of _apply_tags on an image.
ImageTags(pe) == apply_tags(pe.relocs, 1, pe.thunks, pe.code_vaddr)

\* if mode == ShowMode::UnknownMinus && sections.last().unwrap() ...: unwrap() of
\* None when no section was pushed.
NewUnwrapPanics ==
    /\ pc = "read"
    /\ \E mode \in ShowModes : mode = "UnknownMinus" /\ sections = <<>>
    /\ pc' = "done"
    /\ result' = "panic"
    /\ UNCHANGED <<code, offset, instr, sections, tags, lines, disVars, renderVars, extVars>>

\* The rest of CpuShape::new: the early return of UnknownMinus, or _apply_tags
\* and format_sections, with an assertion failing.
NewTailPanics ==
    /\ pc = "read"
    /\ \E pe \in Images : \E t \in ImageTags(pe) :
          /\ \/ t = PanicTags
             \/ t # PanicTags /\ ~TagsAssertHolds(DedupTags(SortTags(t)))
          /\ \E mode \in ShowModes :
                /\ ~(mode = "UnknownMinus" /\ sections = <<>>)
                /\ ~(mode = "UnknownMinus"
                       /\ sections[Len(sections)].kind \notin {"Unknown", "Invalid"})
    /\ pc' = "done"
    /\ result' = "panic"
    /\ UNCHANGED <<code, offset, instr, sections, tags, lines, disVars, renderVars, extVars>>

\* The rest of CpuShape::new returning Ok((shape, lines)).
NewReturnsOk ==
    /\ pc = "read"
    /\ \/ \E mode \in ShowModes :
             /\ mode = "UnknownMinus" /\ sections # <<>>
             /\ sections[Len(sections)].kind \notin {"Unknown", "Invalid"}
             /\ tags' = <<>>
             /\ lines' = 1
       \/ \E pe \in Images : \E t \in ImageTags(pe) :
             /\ t # PanicTags
             /\ TagsAssertHolds(DedupTags(SortTags(t)))
             /\ tags' = DedupTags(SortTags(t))
             /\ \E mode \in ShowModes :
                   /\ ~(mode = "UnknownMinus" /\ sections = <<>>)
                   /\ ~(mode = "UnknownMinus"
                          /\ sections[Len(sections)].kind \notin {"Unknown", "Invalid"})
                   /\ lines' = FormatLines(mode)
    /\ pc' = "done"
    /\ result' = "Ok"
    /\ UNCHANGED <<code, offset, instr, sections, disVars, renderVars, extVars>>

-----------------------------------------------------------------------------
(* The code buffers the decoder is run on. *)

Repeat(b, n) == [i \in 1..n |-> b]

\* The non-empty prefixes of s.
Prefixes(s) == {SubSeq(s, 1, k) : k \in 1..Len(s)}

\* A filler byte that tells the positions of a buffer apart.
Filler(i) == 1 + ((i * 7) % 23)

FillerSeq(n) == [i \in 1..n |-> Filler(i)]

\* Well-formed and malformed records of the kinds of the decoder.
Chunks == {
    <<30>>,                                                 \* the skipped byte 0x1E
    <<70, 0>>,                                              \* Unk46
    <<70, 7>>,                                              \* Unk46, data[1] not 0 or 0xFF
    <<18, 255, 1, 2>>,                                      \* Unk12
    <<18, 0, 1>>,                                           \* Unk12, a byte short
    <<255, 0>> \o FillerSeq(12),                            \* Header
    <<206, 0>> \o FillerSeq(38),                            \* UnkCE
    <<188, 0, 114, 9, 1, 2>>,                               \* UnkBC, flags 0x72
    <<188, 0, 17, 0>>,                                      \* UnkBC, unknown flags
    <<246, 1, 2, 3, 4, 5, 6>>,                              \* UnkF6
    <<56, 1, 2>>,                                           \* Unk38
    <<64, 0, 1, 0, 8, 0>>,                                  \* tag 0x40
    <<153>>,                                                \* tag 0x99
    <<226, 0, 65, 66, 0>> \o Repeat(0, 11),                 \* TextureRef "AB"
    <<226, 0>> \o Repeat(65, 14),                           \* TextureRef, no NUL
    <<226, 0, 65, 0>>,                                      \* TextureRef, cut short
    <<66, 5, 97, 0>>,                                       \* SourceRef "a"
    <<66, 5, 97>>,                                          \* SourceRef, no NUL
    <<130, 0, 1, 0, 0, 0, 255, 255, 0, 128, 1, 0>>,         \* VertexBuf, 1 vertex
    <<130, 0, 0, 0, 0, 0>>,                                 \* VertexBuf, no vertex
    <<130, 0, 1, 0, 0, 0, 255, 255, 0>>,                    \* VertexBuf, cut short
    <<252, 0, 0, 9, 9, 2, 3, 4>>,                           \* Facet, 2 byte indices
    <<252, 4, 0, 9, 9, 1, 3, 1, 0, 2, 0>>,                  \* Facet, texcoords
    <<252, 4, 0, 9, 9, 1, 3, 1>>,                           \* Facet, texcoords cut short
    <<252, 0, 0, 9, 9, 0>>,                                 \* Facet, no index
    <<252, 0, 4, 9, 9, 1, 3>>,                              \* Facet, short index cut short
    <<240, 0, 18, 195>>,                                    \* X86Code ending in ret
    <<240, 0, 195, 72, 0, 18>>,                             \* X86Code, ret then 0x0048
    <<240, 0, 104, 1, 2>> }                                 \* X86Code, push cut short

\* The buffers of at most n chunks.
RECURSIVE ChunkBuffers(_)
ChunkBuffers(n) ==
    IF n = 0 THEN {<<>>}
    ELSE LET prev == ChunkBuffers(n - 1) IN
         prev \cup {c \o b : c \in Chunks, b \in prev}

\* Every facet: the 32 settings of the five flag bits (and one with a bit of
\* 0x00F0 set), each index count, whole or cut short, alone or before a record.
FacetRecord(hi, lo, index_count) ==
    LET flags == hi * 256 + lo
    IN  <<252, hi, lo>> \o FillerSeq(Facet_material_size(flags))
          \o <<index_count>> \o FillerSeq(index_count * 6)

FacetBuffers ==
    UNION { Prefixes(FacetRecord(hi, lo, n) \o <<70, 0>>) :
              hi \in {0, 4, 64, 68}, lo \in (0..7) \cup {16}, n \in 0..MaxIndices }

\* Every vertex buffer of at most MaxVerts vertices over three coordinate
\* values, and the prefixes of one of each count before a record.
VertexWords == { <<1, 0>>, <<0, 128>>, <<255, 255>> }

RECURSIVE WordSeqs(_)
WordSeqs(n) ==
    IF n = 0 THEN {<<>>}
    ELSE {w \o rest : w \in VertexWords, rest \in WordSeqs(n - 1)}

VertexBuffers ==
    UNION { {<<130, 0, n, 0, 0, 0>> \o ws : ws \in WordSeqs(3 * n)}
              \cup Prefixes(<<130, 0, n, 0, 0, 0>> \o FillerSeq(6 * n) \o <<70, 0>>)
            : n \in 0..MaxVerts }

\* Texture references: a name of k bytes, plain or with one byte of it replaced
\* by 0xC3 (alone not UTF-8, UTF-8 before 0xA9), then a NUL and a padding of
\* NULs or of letters; names with no NUL; records cut short.
TextureNames ==
    LET Plain(k) == Repeat(65, k) IN
    UNION { {Plain(k)}
              \cup {[Plain(k) EXCEPT ![j] = 195] : j \in 1..k}
              \cup {[[Plain(k) EXCEPT ![j] = 195] EXCEPT ![j + 1] = 169] : j \in 1..(k - 1)}
            : k \in 0..14 }

TextureBuffers ==
    UNION { LET rest == 14 - Len(nm) IN
            IF rest = 0 THEN {<<226, 0>> \o nm, <<226, 0>> \o nm \o <<70, 0>>}
            ELSE {<<226, 0>> \o nm \o <<0>> \o Repeat(pad, rest - 1) \o tail :
                     pad \in {0, 90}, tail \in {<<>>, <<70, 0>>}}
            : nm \in TextureNames }
      \cup Prefixes(<<226, 0, 65, 66, 0>> \o Repeat(0, 11))
      \cup {<<226, 1, 65, 66, 0>> \o Repeat(0, 11)}

\* x86 code blocks: every payload of at most MaxX86Len bytes over ret, push,
\* op-imm32, 0x00 and 0x12, a ret before each of the skipped words and before
\* two other words, and a push or an op-imm32 with 3 to 6 bytes before a ret.
X86Bytes == {195, 104, 129, 0, 18}

RECURSIVE ByteSeqs(_)
ByteSeqs(n) ==
    IF n = 0 THEN {<<>>}
    ELSE LET prev == ByteSeqs(n - 1) IN
         prev \cup {<<b>> \o p : b \in X86Bytes, p \in {x \in prev : Len(x) = n - 1}}

X86Buffers ==
    {<<240, 0>> \o p : p \in ByteSeqs(MaxX86Len)}
      \cup { <<240, 0, 18, 195, w % 256, w \div 256>> \o tail :
                w \in X86SkipWords \cup {18, 102}, tail \in {<<195, 70, 0>>, <<18, 195>>} }
      \cup { <<240, 0, b>> \o FillerSeq(k) \o tail :
                b \in {104, 129}, k \in 3..6, tail \in {<<195, 18>>, <<195, 70, 0>>} }
      \cup {<<240, 7, 18>>}

-----------------------------------------------------------------------------
(* The specifications of the shape decoder. *)

\* No DisassemblyError.
NoErr == [kind |-> "None", phase |-> "", ip |-> 0, op |-> <<0, 0>>, at |-> 0]

DisIdle ==
    /\ dcode = <<>>
    /\ ip = 0
    /\ instrs = <<>>
    /\ dresult = "idle"
    /\ derr = NoErr

\* add_shape_to_render has not been called.
RenderIdle ==
    /\ sh = <<>>
    /\ draw_mode = <<>>
    /\ interp = <<>>
    /\ roffset = 0
    /\ byte_offset = 0
    /\ section_close = <<>>
    /\ damage_target = <<>>
    /\ rpc = "idle"

\* The decoder of the shape library is not running.
ShapeIdle ==
    /\ code = <<>> /\ offset = 0 /\ instr = <<>> /\ sections = <<>>
    /\ pc = "idle" /\ result = "none" /\ tags = <<>> /\ lines = 0

\* No terrain buffer is built and its test is not running.
TerrainIdle ==
    /\ geo = <<>>
    /\ patch = <<>>
    /\ subdiv = <<>>

\* No instance renderer exists.
SlotIdle ==
    /\ world = <<>>
    /\ chunks = <<>>
    /\ blocks = <<>>
    /\ upload_block_map = <<>>
    /\ slot_call = <<>>

\* No shape renderer exists.
UniformIdle ==
    /\ instances = <<>>
    /\ last_instance_handle = 0
    /\ uniforms = <<>>
    /\ uniforms_offset = 0
    /\ pending = {}
    /\ upc = "none"

ExtIdle == TerrainIdle /\ SlotIdle /\ UniformIdle

\* CpuShape::new is entered with the code buffer the image holds.
InitOn(buffers) ==
    /\ code \in buffers
    /\ offset = 0
    /\ instr = <<>>
    /\ sections = <<>>
    /\ pc = "new"
    /\ result = "none"
    /\ tags = <<>>
    /\ lines = 0
    /\ DisIdle
    /\ RenderIdle
    /\ ExtIdle

Init == InitOn(ChunkBuffers(MaxChunks))

Next ==
    \/ NewParseFails
    \/ NewParse
    \/ LoopAssertFails
    \/ LoopPeekFaults
    \/ Skip1E
    \/ Consume
    \/ ConsumeErr
    \/ ConsumeAborts
    \/ Trailer
    \/ NewUnwrapPanics
    \/ NewTailPanics
    \/ NewReturnsOk

Spec == Init /\ [][Next]_vars

\* The decoder on the facets, the vertex buffers, the texture references and the
\* x86 code blocks, each with the single chunks.
SpecFacet == InitOn(FacetBuffers \cup ChunkBuffers(1)) /\ [][Next]_vars
SpecVertex == InitOn(VertexBuffers \cup ChunkBuffers(1)) /\ [][Next]_vars
SpecTexture == InitOn(TextureBuffers \cup ChunkBuffers(1)) /\ [][Next]_vars
SpecX86 == InitOn(X86Buffers \cup ChunkBuffers(1)) /\ [][Next]_vars

-----------------------------------------------------------------------------
(* libs/i386: the instruction disassembler.                                     *)
(* A 32-bit value is the pair <<high 16 bits, low 16 bits>> of its bit pattern. *)

PREFIX_CODES == {38, 46, 54, 62, 100, 101, 102, 103, 155, 240, 242, 243}

USE_REG_OPCODES == {128, 129, 130, 131, 143, 192, 193, 198, 199, 208, 209, 210,
                    211, 216, 217, 218, 219, 220, 221, 222, 223, 246, 247, 254, 255}

\* make_operand!(method / type)
Opd(method, ty) == [method |-> method, ty |-> ty]

\* OPCODE_TABLE: (opcode, extension) -> the mnemonic and the operand definitions.
OPCODE_TABLE ==
    (<<88, 0>>  :> [memonic |-> "Pop",     cond |-> "none", operands |-> <<Opd("Z", "v")>>]) @@
    (<<104, 0>> :> [memonic |-> "Push",    cond |-> "none", operands |-> <<Opd("I", "vs")>>]) @@
    (<<117, 0>> :> [memonic |-> "Jcc",     cond |-> "ZF=0", operands |-> <<Opd("J", "bs")>>]) @@
    (<<129, 0>> :> [memonic |-> "Add",     cond |-> "none",
                    operands |-> <<Opd("E", "v"), Opd("I", "v")>>]) @@
    (<<131, 7>> :> [memonic |-> "Compare", cond |-> "none",
                    operands |-> <<Opd("E", "v"), Opd("I", "bs")>>]) @@
    (<<137, 0>> :> [memonic |-> "Move",    cond |-> "none",
                    operands |-> <<Opd("E", "v"), Opd("G", "v")>>]) @@
    (<<161, 0>> :> [memonic |-> "Move",    cond |-> "none",
                    operands |-> <<Opd("Imp", "eAX"), Opd("O", "v")>>]) @@
    (<<195, 0>> :> [memonic |-> "Return",  cond |-> "none", operands |-> <<>>]) @@
    (<<209, 7>> :> [memonic |-> "Sar",     cond |-> "none",
                    operands |-> <<Opd("E", "v"), Opd("Imp", "const1")>>]) @@
    (<<232, 0>> :> [memonic |-> "Call",    cond |-> "none", operands |-> <<Opd("J", "v")>>])

\* Operand::register: the 32-bit register of an index 0..7.
register(b) == <<"EAX", "ECX", "EDX", "EBX", "ESP", "EBP", "ESI", "EDI">>[b + 1]

\* Operand::maybe_toggle_reg_size: AX for EAX under the operand-size prefix;
\* "unreachable" stands for the unreachable!() of every other register.
maybe_toggle_reg_size(reg, toggle_operand_size) ==
    IF toggle_operand_size
    THEN (IF reg = "EAX" THEN "AX" ELSE "unreachable")
    ELSE reg

\* Operand::modrm: (b >> 6, (b >> 3) & 0b111, b & 0b111).
modrm(b) == <<b \div 64, (b \div 8) % 8, b % 8>>

\* The operands, uniformly: an immediate carries bits, a register reg, a memory
\* reference its displacement in bits and its base register (or "None").
Imm32(bits) == [kind |-> "Imm32", bits |-> bits, reg |-> "None"]
Imm32s(bits) == [kind |-> "Imm32s", bits |-> bits, reg |-> "None"]
Register(reg) == [kind |-> "Register", bits |-> <<0, 0>>, reg |-> reg]
Memory(displacement, base) == [kind |-> "Memory", bits |-> displacement, reg |-> base]

\* (b as i8 as i32) and (uw as i16 as i32): sign extension to 32 bits.
SignExtend8(b) == IF b >= 128 THEN <<65535, 65280 + b>> ELSE <<0, b>>
SignExtend16_Zero(w) == <<0, w>>
SignExtend16(w) == IF w >= 32768 THEN <<65535, w>> ELSE <<0, w>>

\* The outcome of a read or of a decoding step: the value, the cursor after it,
\* and st: "Ok", "panic", or the phase of a TooShort error.
Step(st, v, at) == [st |-> st, v |-> v, ip |-> at]

\* Operand::read1, read2, read4.
read1(c, at) ==
    IF ~(Len(c) > at) THEN Step("op read 1", 0, at)
    ELSE Step("Ok", At(c, at), at + 1)

read2_Padded(c, at) ==
    IF ~(Len(c) > at + 1) THEN Step("Ok", 0, at + 2)
    ELSE Step("Ok", LE16(At(c, at), At(c, at + 1)), at + 2)

read2(c, at) ==
    IF ~(Len(c) > at + 1) THEN Step("op read 2", 0, at)
    ELSE Step("Ok", LE16(At(c, at), At(c, at + 1)), at + 2)

read4(c, at) ==
    IF ~(Len(c) > at + 3) THEN Step("op read 4", <<0, 0>>, at)
    ELSE Step("Ok", LE32At(c, at), at + 4)

\* Operand::read_n_32: an operand, or the failed read.
read_n_32(c, at, toggle_size, sign_extend) ==
    IF toggle_size
    THEN LET uw == read2(c, at) IN
         IF uw.st # "Ok" THEN uw
         ELSE Step("Ok", IF sign_extend THEN Imm32s(SignExtend16(uw.v))
                         ELSE Imm32(<<0, uw.v>>), uw.ip)
    ELSE LET ud == read4(c, at) IN
         IF ud.st # "Ok" THEN ud
         ELSE Step("Ok", IF sign_extend THEN Imm32s(ud.v) ELSE Imm32(ud.v), ud.ip)

\* OpPrefix::from_bytes with OpPrefix::apply: the prefix bytes at the cursor.
\* apply is unreachable!() for every prefix but 0x66 and 0x67.
RECURSIVE OpPrefix_from_bytes(_, _, _)
OpPrefix_from_bytes(c, at, prefix) ==
    IF at < Len(c) /\ At(c, at) \in PREFIX_CODES
    THEN (IF At(c, at) = 102
          THEN OpPrefix_from_bytes(c, at + 1, [prefix EXCEPT !.toggle_operand_size = TRUE])
          ELSE IF At(c, at) = 103
          THEN OpPrefix_from_bytes(c, at + 1, [prefix EXCEPT !.toggle_address_size = TRUE])
          ELSE Step("panic", prefix, at))
    ELSE Step("Ok", prefix, at)

\* Instr::read_op: the pair (op, op_ext).
read_op(c, at) ==
    IF ~(Len(c) > at) THEN Step("read_op", <<0, 0>>, at)
    ELSE LET op == At(c, at) IN
         IF op \in USE_REG_OPCODES
         THEN (IF ~(Len(c) > at + 1) THEN Step("decode_op_ext", <<0, 0>>, at + 1)
               ELSE Step("Ok", <<op, modrm(At(c, at + 1))[2]>>, at + 1))
         ELSE Step("Ok", <<op, 0>>, at + 1)

\* Instr::lookup_op: the key of the table entry used, or <<-1, -1>> for
\* UnknownOpcode.
lookup_op_Lenient(op) ==
    IF op \in DOMAIN OPCODE_TABLE THEN op
    ELSE LET base_op == <<op[1] - (op[1] % 8), 0>> IN
         IF base_op \in DOMAIN OPCODE_TABLE THEN base_op
         ELSE <<195, 0>>

lookup_op_Exact(op) ==
    IF op \in DOMAIN OPCODE_TABLE THEN op ELSE <<-1, -1>>

lookup_op(op) ==
    IF op \in DOMAIN OPCODE_TABLE THEN op
    ELSE LET base_op == <<op[1] - (op[1] % 8), 0>> IN
         IF base_op \in DOMAIN OPCODE_TABLE THEN base_op
         ELSE <<-1, -1>>

\* The operand of a failed decoding step.
NoOperand == Register("None")

\* The outcome of decoding one operand: st, the operand, the cursor, and the
\* ModR/M byte cached in the OperandDecodeState (-1 for None).
OpStep(st, v, at, m) == [st |-> st, v |-> v, ip |-> at, modrm |-> m]

\* OperandDecodeState::read_modrm: the cached byte, or the byte at the cursor.
read_modrm(c, at, state) ==
    IF state.modrm # -1 THEN OpStep("Ok", modrm(state.modrm), at, state.modrm)
    ELSE IF ~(Len(c) > at) THEN OpStep("op read modrm", <<0, 0, 0>>, at, -1)
    ELSE OpStep("Ok", modrm(At(c, at)), at + 1, At(c, at))

\* A register operand, or the panic of maybe_toggle_reg_size.
RegisterOperand(reg, toggle_operand_size, at, m) ==
    LET r == maybe_toggle_reg_size(reg, toggle_operand_size) IN
    IF r = "unreachable" THEN OpStep("panic", NoOperand, at, m)
    ELSE OpStep("Ok", Register(r), at, m)

\* The operand that a read produced, or the error of the read.
FromRead(r, m) == OpStep(r.st, IF r.st = "Ok" THEN r.v ELSE NoOperand, r.ip, m)

\* Operand::from_bytes.
Operand_from_bytes(c, at, desc, state) ==
    LET toggle == state.prefix.toggle_operand_size IN
    CASE desc.method = "E" ->
           LET mr == read_modrm(c, at, state) IN
           IF mr.st # "Ok" THEN OpStep(mr.st, NoOperand, mr.ip, mr.modrm)
           ELSE LET mode == mr.v[1]
                    rm == mr.v[3]
                IN
                IF mode = 0
                THEN (IF rm = 5
                      THEN (IF state.prefix.toggle_address_size
                            THEN OpStep("panic", NoOperand, mr.ip, mr.modrm)
                            ELSE LET ud == read4(c, mr.ip) IN
                                 IF ud.st # "Ok"
                                 THEN OpStep(ud.st, NoOperand, ud.ip, mr.modrm)
                                 ELSE OpStep("Ok", Memory(ud.v, "None"), ud.ip, mr.modrm))
                      ELSE OpStep("panic", NoOperand, mr.ip, mr.modrm))
                ELSE IF mode = 1
                THEN LET disp8 == read1(c, mr.ip) IN
                     IF disp8.st # "Ok"
                     THEN OpStep(disp8.st, NoOperand, disp8.ip, mr.modrm)
                     ELSE OpStep("Ok", Memory(SignExtend8(disp8.v), register(rm)),
                                 disp8.ip, mr.modrm)
                ELSE IF mode = 3
                THEN RegisterOperand(register(rm), toggle, mr.ip, mr.modrm)
                ELSE OpStep("panic", NoOperand, mr.ip, mr.modrm)
      [] desc.method = "G" ->
           LET mr == read_modrm(c, at, state) IN
           IF mr.st # "Ok" THEN OpStep(mr.st, NoOperand, mr.ip, mr.modrm)
           ELSE RegisterOperand(register(mr.v[2]), toggle, mr.ip, mr.modrm)
      [] desc.method = "I" ->
           (CASE desc.ty = "bs" ->
                   LET b == read1(c, at) IN
                   IF b.st # "Ok" THEN OpStep(b.st, NoOperand, b.ip, state.modrm)
                   ELSE OpStep("Ok", Imm32s(SignExtend8(b.v)), b.ip, state.modrm)
              [] desc.ty = "v" -> FromRead(read_n_32(c, at, toggle, FALSE), state.modrm)
              [] desc.ty = "vs" -> FromRead(read_n_32(c, at, toggle, TRUE), state.modrm)
              [] OTHER -> OpStep("panic", NoOperand, at, state.modrm))
      [] desc.method = "J" ->
           (CASE desc.ty = "bs" ->
                   LET b == read1(c, at) IN
                   IF b.st # "Ok" THEN OpStep(b.st, NoOperand, b.ip, state.modrm)
                   ELSE OpStep("Ok", Imm32s(SignExtend8(b.v)), b.ip, state.modrm)
              [] desc.ty = "v" -> FromRead(read_n_32(c, at, toggle, FALSE), state.modrm)
              [] OTHER -> OpStep("panic", NoOperand, at, state.modrm))
      [] desc.method = "O" ->
           (IF desc.ty = "v"
            THEN LET ud == read4(c, at) IN
                 IF ud.st # "Ok" THEN OpStep(ud.st, NoOperand, ud.ip, state.modrm)
                 ELSE OpStep("Ok", Memory(ud.v, "None"), ud.ip, state.modrm)
            ELSE OpStep("panic", NoOperand, at, state.modrm))
      [] desc.method = "Z" ->
           OpStep("Ok", Register(register(state.op % 8)), at, state.modrm)
      [] desc.method = "Imp" ->
           (CASE desc.ty = "eAX" -> RegisterOperand("EAX", toggle, at, state.modrm)
              [] desc.ty = "const1" -> OpStep("Ok", Imm32(<<0, 1>>), at, state.modrm)
              [] OTHER -> OpStep("panic", NoOperand, at, state.modrm))
      [] OTHER -> OpStep("panic", NoOperand, at, state.modrm)

\* The outcome of Instr::decode_one: st is "Ok", "panic", "UnknownOpcode" or
\* the phase of a TooShort; at is where the instruction started.
Decoded(st, at, next, memonic, cond, operands, op) ==
    [st |-> st, at |-> at, ip |-> next, memonic |-> memonic, cond |-> cond,
     operands |-> operands, op |-> op]

\* The loop of decode_one over the operand definitions of the opcode.
RECURSIVE DecodeOperands(_, _, _, _, _, _, _)
DecodeOperands(c, start, at, def, i, state, operands) ==
    IF i > Len(def.operands)
    THEN Decoded("Ok", start, at, def.memonic, def.cond, operands, <<state.op, 0>>)
    ELSE LET o == Operand_from_bytes(c, at, def.operands[i], state) IN
         IF o.st # "Ok"
         THEN Decoded(o.st, start, o.ip, "None", "none", <<>>, <<state.op, 0>>)
         ELSE DecodeOperands(c, start, o.ip, def, i + 1,
                             [state EXCEPT !.modrm = o.modrm], Append(operands, o.v))

\* Instr::decode_one at cursor at.
decode_one(c, at) ==
    LET prefix == OpPrefix_from_bytes(c, at,
                      [toggle_address_size |-> FALSE, toggle_operand_size |-> FALSE])
    IN
    IF prefix.st # "Ok" THEN Decoded("panic", at, prefix.ip, "None", "none", <<>>, <<0, 0>>)
    ELSE LET op == read_op(c, prefix.ip) IN
         IF op.st # "Ok" THEN Decoded(op.st, at, op.ip, "None", "none", <<>>, <<0, 0>>)
         ELSE LET key == lookup_op(op.v) IN
              IF key = <<-1, -1>>
              THEN Decoded("UnknownOpcode", at, op.ip, "None", "none", <<>>, op.v)
              ELSE DecodeOperands(c, at, op.ip, OPCODE_TABLE[key], 1,
                                  [prefix |-> prefix.v, op |-> op.v[1], modrm |-> -1],
                                  <<>>)

\* The DisassemblyError of a failed decode_one.
ErrOf(d) ==
    IF d.st = "UnknownOpcode"
    THEN [kind |-> "UnknownOpcode", phase |-> "", ip |-> d.ip, op |-> d.op, at |-> d.at]
    ELSE [kind |-> "TooShort", phase |-> d.st, ip |-> d.ip, op |-> <<0, 0>>, at |-> d.at]

\* Instr::disassemble, one iteration of its loop: decode_one succeeds and the
\* instruction is pushed.
DisDecode ==
    /\ pc = "dis" /\ dresult = "none"
    /\ ip < Len(dcode)
    /\ LET d == decode_one(dcode, ip) IN
       /\ d.st = "Ok"
       /\ instrs' = Append(instrs, [memonic |-> d.memonic, cond |-> d.cond,
                                    operands |-> d.operands, at |-> d.at, next |-> d.ip])
       /\ ip' = d.ip
    /\ UNCHANGED <<dcode, dresult, derr, pc>>
    /\ UNCHANGED <<shapeVars, renderVars, extVars>>

\* decode_one returns an error and disassemble returns it.
DisFails ==
    /\ pc = "dis" /\ dresult = "none"
    /\ ip < Len(dcode)
    /\ LET d == decode_one(dcode, ip) IN
       /\ d.st \notin {"Ok", "panic"}
       /\ dresult' = "Err"
       /\ derr' = ErrOf(d)
       /\ ip' = d.ip
    /\ UNCHANGED <<dcode, instrs, pc>>
    /\ UNCHANGED <<shapeVars, renderVars, extVars>>

\* decode_one hits an assert!() or an unreachable!().
DisPanics ==
    /\ pc = "dis" /\ dresult = "none"
    /\ ip < Len(dcode)
    /\ LET d == decode_one(dcode, ip) IN
       /\ d.st = "panic"
       /\ dresult' = "panic"
       /\ derr' = [NoErr EXCEPT !.at = d.at]
       /\ ip' = d.ip
    /\ UNCHANGED <<dcode, instrs, pc>>
    /\ UNCHANGED <<shapeVars, renderVars, extVars>>

\* The cursor reached the end of the code: disassemble returns the instructions.
DisDone ==
    /\ pc = "dis" /\ dresult = "none"
    /\ ~(ip < Len(dcode))
    /\ dresult' = "Ok"
    /\ UNCHANGED <<dcode, ip, instrs, derr, pc>>
    /\ UNCHANGED <<shapeVars, renderVars, extVars>>

\* The code bytes the disassembler is run on: the opcodes of the table and
\* their neighbours, the prefixes, and ModR/M bytes of every mode.
DisBytes == (88 .. 95) \cup {102, 103, 243, 104, 105, 116, 117, 129, 131, 137,
                             161, 195, 209, 232, 0, 5, 69, 192, 248, 249, 255}

DisCodes == UNION {[1 .. n -> DisBytes] : n \in 0 .. MaxDisLen}

\* Instructions of the opcode table in their encodings, with and without the
\* operand-size and address-size prefixes; opcodes that are not in the table;
\* ModR/M forms with mod 00, mod 10 and with an SIB byte.
DisUnits == {
    <<129, 192, 1, 2, 3, 128>>,             \* 81 C0 imm32     add eax, imm32
    <<129, 193, 255, 255, 255, 127>>,       \* 81 C1 imm32     add ecx, imm32
    <<102, 129, 192, 1, 128>>,              \* 66 81 C0 imm16  add ax, imm16
    <<102, 129, 193, 1, 128>>,              \* 66 81 C1 imm16  add cx, imm16
    <<129, 69, 252, 1, 0, 0, 0>>,           \* 81 45 FC imm32  add [ebp-4], imm32
    <<129, 224, 1, 0, 0, 0>>,               \* 81 E0 imm32     and eax, imm32
    <<131, 248, 255>>,                      \* 83 F8 FF        cmp eax, -1
    <<131, 125, 252, 5>>,                   \* 83 7D FC 05     cmp [ebp-4], 5
    <<131, 61, 4, 3, 2, 129, 127>>,         \* 83 3D disp32 7F cmp [disp32], 127
    <<131, 192, 1>>,                        \* 83 C0 01        add eax, 1
    <<137, 69, 252>>,                       \* 89 45 FC        mov [ebp-4], eax
    <<137, 200>>,                           \* 89 C8           mov eax, ecx
    <<102, 137, 192>>,                      \* 66 89 C0        mov ax, ax
    <<137, 13, 4, 3, 2, 129>>,              \* 89 0D disp32    mov [disp32], ecx
    <<103, 137, 13, 4, 3, 2, 129>>,         \* 67 89 0D ...    address-size prefix
    <<137, 0>>,                             \* 89 00           mov [eax], eax
    <<137, 128, 4, 0, 0, 0>>,               \* 89 80 disp32    mov [eax+disp32], eax
    <<137, 68, 36, 4>>,                     \* 89 44 24 04     mov [esp+4], eax
    <<137, 4, 36>>,                         \* 89 04 24        mov [esp], eax
    <<161, 4, 3, 2, 129>>,                  \* A1 moffs32      mov eax, [moffs32]
    <<102, 161, 4, 3, 2, 129>>,             \* 66 A1 moffs32   mov ax, [moffs32]
    <<195>>,                                \* C3              ret
    <<209, 248>>,                           \* D1 F8           sar eax, 1
    <<209, 125, 252>>,                      \* D1 7D FC        sar [ebp-4], 1
    <<209, 224>>,                           \* D1 E0           shl eax, 1
    <<104, 1, 2, 3, 128>>,                  \* 68 imm32        push imm32
    <<102, 104, 1, 128>>,                   \* 66 68 imm16     push imm16
    <<102, 104, 255, 127>>,                 \* 66 68 imm16     push imm16
    <<105, 1, 0, 0, 0>>,                    \* 69 ...          imul
    <<88>>,                                 \* 58              pop eax
    <<93>>,                                 \* 5D              pop ebp
    <<232, 252, 255, 255, 255>>,            \* E8 rel32        call
    <<102, 232, 1, 128>>,                   \* 66 E8 rel16     call
    <<233, 1, 0, 0, 0>>,                    \* E9 rel32        jmp
    <<117, 254>>,                           \* 75 FE           jnz
    <<117, 5>>,                             \* 75 05           jnz
    <<116, 2>>,                             \* 74 02           jz
    <<144>>,                                \* 90              nop
    <<243, 195>>,                           \* F3 C3           rep ret
    <<46, 137, 200>>                        \* 2E 89 C8        cs: mov eax, ecx
}

\* The buffers of at most n instructions of DisUnits.
RECURSIVE DisUnitSeqs(_)
DisUnitSeqs(n) ==
    IF n = 0 THEN {<<>>}
    ELSE LET prev == DisUnitSeqs(n - 1) IN
         prev \cup {u \o c : u \in DisUnits, c \in prev}

\* The buffers of instructions, the buffers that end inside an instruction, and
\* every prefix byte before an instruction.
DisUnitCodes ==
    DisUnitSeqs(MaxDisUnits)
      \cup UNION {Prefixes(u) : u \in DisUnits}
      \cup UNION {{<<88>> \o p, <<102>> \o p} : p \in UNION {Prefixes(u) : u \in DisUnits}}
      \cup {<<b>> \o u : b \in PREFIX_CODES, u \in {<<195>>, <<137, 200>>, <<104, 1, 2, 3, 128>>}}

InitDis ==
    /\ code = <<>> /\ offset = 0 /\ instr = <<>> /\ sections = <<>>
    /\ pc = "dis" /\ result = "none" /\ tags = <<>> /\ lines = 0
    /\ dcode \in DisCodes \cup DisUnitCodes
    /\ ip = 0 /\ instrs = <<>> /\ dresult = "none" /\ derr = NoErr
    /\ RenderIdle
    /\ ExtIdle

NextDis ==
    \/ DisDecode
    \/ DisFails
    \/ DisPanics
    \/ DisDone

SpecDis == InitDis /\ [][NextDis]_vars

-----------------------------------------------------------------------------
(* The properties of the shape record decoder. *)

\* C1: in every record sequence of _read_sections the first record starts at
\* byte offset 0 and each following record starts at the start of the previous
\* record plus its size(): no byte before the end of the last record is skipped
\* or covered twice.
C1_RecordsAbut ==
    /\ instr # <<>> => instr[1].at = 0
    /\ \A i \in DOMAIN instr :
          i > 1 => instr[i].at = instr[i - 1].at + instr[i - 1].size

\* C2: a byte at the cursor that is not a known record tag makes the decoding
\* fail with an error: the remaining bytes are never absorbed into a record, and
\* no result is a success that holds such a record.
C2_UnknownTagFails ==
    \A i \in DOMAIN instr :
        Dispatch(At(code, instr[i].at)) = "TrailerUnknown" => result = "Err"

\* C3: when the cursor equals the length of the code buffer after a record was
\* consumed and no trailer record was made, the loop stops and the decoding
\* succeeds: the end of the buffer is never an error or an abort.
C3_EndOfBufferSucceeds ==
    ( /\ pc = "done"
      /\ instr # <<>>
      /\ offset = Len(code)
      /\ instr[Len(instr)].kind # "TrailerUnknown" )
    => result = "Ok"

\* C4: the size() of every facet record is 3 + material_size + 1
\* + index_count * index_size + (HAVE_TEXCOORDS ? index_count * 2 * tc_size : 0),
\* with material_size 2, 11 or 14, index_size 2 or 1 and tc_size 1 or 2 chosen
\* by the flag bits, and index_count the byte at offset 3 + material_size.
C4_FacetSize ==
    \A i \in DOMAIN instr :
        instr[i].kind = "Facet" =>
            LET at == instr[i].at
                w == 256 * At(code, at + 1) + At(code, at + 2)
                Has(mask) == (w \div mask) % 2 = 1
                material_size == IF ~Has(16384) THEN 2
                                 ELSE IF Has(2) THEN 11 ELSE 14
                index_size == IF Has(4) THEN 2 ELSE 1
                tc_size == IF Has(1) THEN 1 ELSE 2
                index_count == At(code, at + 3 + material_size)
            IN  /\ at + 3 + material_size < Len(code)
                /\ Len(instr[i].data) = index_count
                /\ instr[i].size = 3 + material_size + 1 + index_count * index_size
                                     + (IF Has(1024) THEN index_count * 2 * tc_size ELSE 0)

\* C4: a facet with a material, short indices and texture coordinates of two
\* bytes was decoded with at least one index.
C4_Witness ==
    \E i \in DOMAIN instr :
        /\ instr[i].kind = "Facet"
        /\ At(code, instr[i].at + 1) = 68
        /\ At(code, instr[i].at + 2) = 4
        /\ Len(instr[i].data) >= 1

\* C5: a record whose computed length exceeds the bytes remaining in the code
\* buffer is refused with an error value: no record that extends past the end
\* of the buffer is returned.
C5_NoRecordPastBuffer ==
    \A i \in DOMAIN instr : instr[i].at + instr[i].size <= Len(code)

\* C6: for every input and every ShowMode CpuShape::new finishes by returning
\* Ok or an Err value; it never aborts the caller.
C6_NewReturns ==
    pc = "done" => result \in {"Ok", "Err"}

\* C7: a TextureRef record has size() 16 and its filename is the bytes from
\* offset 2 up to, not including, the first NUL within bytes 2..16; with no NUL
\* in bytes 2..16 the decoding returns an error and no record.
C7_TextureRef ==
    LET NulAt(at) == {k \in 2..15 : At(code, at + k) = 0} IN
    /\ \A i \in DOMAIN instr :
          instr[i].kind = "TextureRef" =>
              /\ instr[i].size = 16
              /\ \E k \in NulAt(instr[i].at) :
                    /\ \A j \in NulAt(instr[i].at) : k <= j
                    /\ instr[i].data = [j \in 1..(k - 2) |-> At(code, instr[i].at + 1 + j)]
    /\ ( /\ pc = "done"
         /\ offset + 16 <= Len(code)
         /\ At(code, offset) = 226
         /\ At(code, offset + 1) = 0
         /\ NulAt(offset) = {} )
       => result = "Err"

\* C7: a TextureRef with a name of several bytes, and bytes that are not NUL
\* after the first NUL, was decoded.
C7_Witness ==
    \E i \in DOMAIN instr :
        /\ instr[i].kind = "TextureRef"
        /\ Len(instr[i].data) >= 2
        /\ At(code, instr[i].at + 15) # 0

\* C8: a VertexBuf record whose count at bytes 2..4 is n holds n vertices, its
\* size() is 6 + 6 * n, and each coordinate that lies in the buffer is the
\* little-endian 16-bit value at its place, read as a signed number.
C8_VertexBuf ==
    \A i \in DOMAIN instr :
        instr[i].kind = "VertexBuf" =>
            LET at == instr[i].at
                n == At(code, at + 2) + 256 * At(code, at + 3)
                Signed(w) == IF w < 32768 THEN w ELSE w - 65536
            IN  /\ instr[i].size = 6 + 6 * n
                /\ Len(instr[i].data) = 3 * n
                /\ \A k \in 1..(3 * n) :
                      at + 6 + 2 * k <= Len(code) =>
                          instr[i].data[k] = Signed(At(code, at + 4 + 2 * k)
                                                      + 256 * At(code, at + 5 + 2 * k))

\* C8: a vertex buffer that lies in the code buffer was decoded with the
\* coordinates -1 and -32768.
C8_Witness ==
    \E i \in DOMAIN instr :
        /\ instr[i].kind = "VertexBuf"
        /\ instr[i].at + instr[i].size <= Len(code)
        /\ \E k \in DOMAIN instr[i].data : instr[i].data[k] = -1
        /\ \E k \in DOMAIN instr[i].data : instr[i].data[k] = -32768

\* The block end of the scan over the payload p from position pos (0-based).
\* A 0x68 advances 5, a 0x81 advances 6, every other byte 1; a ret (0xC3) that
\* is examined ends the block behind it unless the two bytes after it are one of
\* the skipped words, which are skipped.  With everyRet every ret is examined;
\* without it the byte behind a skipped word is not (afterSkip).
RECURSIVE C9_Scan(_, _, _, _)
C9_Scan(p, pos, afterSkip, everyRet) ==
    IF pos >= Len(p) THEN pos
    ELSE IF p[pos + 1] = 195 /\ (everyRet \/ ~afterSkip)
    THEN (IF pos + 3 <= Len(p)
             /\ p[pos + 2] + 256 * p[pos + 3] \in {72, 0, 1382, 1515, 59472, 35174}
          THEN C9_Scan(p, pos + 3, TRUE, everyRet)
          ELSE pos + 1)
    ELSE C9_Scan(p, pos + (IF p[pos + 1] = 104 THEN 5
                           ELSE IF p[pos + 1] = 129 THEN 6 ELSE 1), FALSE, everyRet)

\* C9, as stated: the size() of every X86Code record is 2 plus the block end of
\* the scan in which every ret is examined as a terminator.
C9_EveryRetExamined ==
    \A i \in DOMAIN instr :
        instr[i].kind = "X86Code" =>
            instr[i].size = 2 + C9_Scan(SliceFrom(code, instr[i].at + 2), 0, FALSE, TRUE)

\* C9, amended: the size() of every X86Code record that from_bytes returns is 2
\* plus the block end of the scan in which the byte behind a skipped word is
\* advanced over by the 0x68 / 0x81 / other rule without being examined as a
\* terminator; the record holds the payload up to that end.
C9_ScanHeuristic ==
    \A i \in DOMAIN instr :
        instr[i].kind = "X86Code" =>
            LET payload == SliceFrom(code, instr[i].at + 2)
                end == C9_Scan(payload, 0, FALSE, FALSE)
            IN  /\ instr[i].size = 2 + end
                /\ end <= Len(payload)
                /\ instr[i].data = SubSeq(payload, 1, end)

\* C9: an X86Code record was returned whose payload holds a ret, a skipped
\* word, and a ret right behind the word that did not end the block.
C9_Witness ==
    \E i \in DOMAIN instr :
        /\ instr[i].kind = "X86Code"
        /\ \E k \in DOMAIN instr[i].data :
              /\ k + 4 <= Len(instr[i].data)
              /\ instr[i].data[k] = 195
              /\ instr[i].data[k + 1] + 256 * instr[i].data[k + 2] \in X86SkipWords
              /\ instr[i].data[k + 3] = 195

-----------------------------------------------------------------------------
(* The properties of the disassembler. *)

\* C10: for every r in 0..7, decode_one at the opcode byte 0x58 | r returns a
\* Pop with exactly one operand, the 32-bit register of index r, and advances
\* the cursor by exactly one byte; it never fails there.
C10_PopDecodes ==
    LET Reg32 == <<"EAX", "ECX", "EDX", "EBX", "ESP", "EBP", "ESI", "EDI">> IN
    /\ \A i \in DOMAIN instrs :
          \A r \in 0..7 :
              At(dcode, instrs[i].at) = 88 + r =>
                  /\ instrs[i].memonic = "Pop"
                  /\ Len(instrs[i].operands) = 1
                  /\ instrs[i].operands[1].kind = "Register"
                  /\ instrs[i].operands[1].reg = Reg32[r + 1]
                  /\ instrs[i].next = instrs[i].at + 1
    /\ dresult \in {"Err", "panic"} => At(dcode, derr.at) \notin 88..95

\* C10: the disassembly of a code that holds 0x5C and 0x5F finished with the
\* pops of ESP and EDI.
C10_Witness ==
    /\ dresult = "Ok"
    /\ \E i, j \in DOMAIN instrs :
          /\ At(dcode, instrs[i].at) = 92 /\ instrs[i].operands[1].reg = "ESP"
          /\ At(dcode, instrs[j].at) = 95 /\ instrs[j].operands[1].reg = "EDI"

\* The position of the opcode of the instruction that starts at `at`: behind the
\* run of operand-size (0x66) and address-size (0x67) prefixes.
RECURSIVE Ref_OpcodePos(_)
Ref_OpcodePos(at) ==
    IF at < Len(dcode) /\ At(dcode, at) \in {102, 103}
    THEN Ref_OpcodePos(at + 1)
    ELSE at

\* The (opcode, extension) pair of the instruction that starts at `at`, where
\* the buffer holds it and the byte is no prefix: the extension is bits 3..5 of
\* the next byte for the opcodes that carry one, and 0 for the others.
Ref_HasOp(at) ==
    LET q == Ref_OpcodePos(at) IN
    /\ q < Len(dcode)
    /\ At(dcode, q) \notin PREFIX_CODES
    /\ At(dcode, q) \in USE_REG_OPCODES => q + 1 < Len(dcode)

Ref_Op(at) ==
    LET q == Ref_OpcodePos(at) IN
    <<At(dcode, q),
      IF At(dcode, q) \in USE_REG_OPCODES THEN (At(dcode, q + 1) \div 8) % 8 ELSE 0>>

\* C11: when neither the (opcode, extension) pair at the cursor nor the pair
\* (opcode with its low three bits cleared, 0) is in the table, the step of
\* disassemble ends it with the error UnknownOpcode that carries the opcode and
\* the extension, pushes no instruction, and nothing is decoded after an end.
C11_UnknownOpcodeFails ==
    [][ /\ dresult = "none"
        /\ ( /\ Ref_HasOp(ip)
             /\ Ref_Op(ip) \notin DOMAIN OPCODE_TABLE
             /\ <<Ref_Op(ip)[1] - (Ref_Op(ip)[1] % 8), 0>> \notin DOMAIN OPCODE_TABLE )
           => /\ dresult' = "Err"
              /\ derr'.kind = "UnknownOpcode"
              /\ derr'.op = Ref_Op(ip)
              /\ instrs' = instrs ]_vars

\* C11: the disassembly decoded an instruction and then failed with
\* UnknownOpcode on 0x81 /4.
C11_Witness ==
    /\ dresult = "Err"
    /\ derr.kind = "UnknownOpcode"
    /\ derr.op = <<129, 4>>
    /\ instrs # <<>>

\* C12: every legacy prefix byte before the opcode is consumed; a prefix other
\* than 0x66 and 0x67 is accepted and changes nothing: the disassembly never
\* aborts with its cursor on such a prefix byte.
C12_PrefixAccepted ==
    ~ ( /\ dresult = "panic"
        /\ ip < Len(dcode)
        /\ At(dcode, ip) \in {38, 46, 54, 62, 100, 101, 155, 240, 242, 243} )

\* An opcode with an E operand at `at` (no prefix) whose ModR/M byte has a form
\* that is not implemented: mod 00 with rm other than 101, mod 10, or a memory
\* form with rm 100, which needs an SIB byte.
Ref_UnsupportedForm(at) ==
    /\ at + 1 < Len(dcode)
    /\ <<At(dcode, at), IF At(dcode, at) = 137 THEN 0 ELSE (At(dcode, at + 1) \div 8) % 8>>
          \in {<<129, 0>>, <<131, 7>>, <<137, 0>>, <<209, 7>>}
    /\ LET mod == At(dcode, at + 1) \div 64
           rm == At(dcode, at + 1) % 8
       IN  \/ mod = 0 /\ rm # 5
           \/ mod = 2
           \/ mod # 3 /\ rm = 4

\* C13: a ModR/M form that is not implemented makes decode_one fail with an
\* error value: no instruction is returned for it, and the call does not abort.
C13_UnsupportedFormFails ==
    /\ \A i \in DOMAIN instrs : ~Ref_UnsupportedForm(instrs[i].at)
    /\ dresult = "panic" => ~Ref_UnsupportedForm(derr.at)

\* Whether the run of prefixes from `at` up to the opcode at q holds b.
Ref_HasPrefix(at, q, b) == \E k \in at..(q - 1) : At(dcode, k) = b

\* The instruction that starts at `at` is one of the table in a form that is
\* implemented, and the buffer ends before it is complete: behind the prefixes
\* 0x66 / 0x67 and before the opcode, before the ModR/M byte, or inside the
\* displacement or the immediate.
Ref_Truncated(at) ==
    LET q == Ref_OpcodePos(at) IN
    IF q >= Len(dcode) THEN at < Len(dcode)
    ELSE LET op == At(dcode, q)
             t == Ref_HasPrefix(at, q, 102)
             a == Ref_HasPrefix(at, q, 103)
             wide == IF t THEN 2 ELSE 4
         IN  IF op \in {104, 232} THEN q + 1 + wide > Len(dcode)
             ELSE IF op = 117 THEN q + 2 > Len(dcode)
             ELSE IF op = 161 THEN q + 5 > Len(dcode)
             ELSE IF op \notin {129, 131, 137, 209} THEN FALSE
             ELSE IF q + 1 >= Len(dcode) THEN TRUE
             ELSE LET mod == At(dcode, q + 1) \div 64
                      ext == (At(dcode, q + 1) \div 8) % 8
                      rm == At(dcode, q + 1) % 8
                      imm == IF op = 129 THEN wide ELSE IF op = 131 THEN 1 ELSE 0
                  IN  /\ \/ op = 129 /\ ext = 0
                         \/ op \in {131, 209} /\ ext = 7
                         \/ op = 137
                      /\ \/ mod = 3 /\ (~t \/ rm = 0) /\ q + 2 + imm > Len(dcode)
                         \/ mod = 1 /\ rm # 4 /\ q + 3 + imm > Len(dcode)
                         \/ mod = 0 /\ rm = 5 /\ ~a /\ q + 6 + imm > Len(dcode)

C15_SubsetDecodes ==
    LET Documented ==
            (<<129, 0>> :> <<"Add", 2>>) @@ (<<131, 7>> :> <<"Compare", 2>>) @@
            (<<137, 0>> :> <<"Move", 2>>) @@ (<<161, 0>> :> <<"Move", 2>>) @@
            (<<195, 0>> :> <<"Return", 0>>) @@ (<<209, 7>> :> <<"Sar", 2>>) @@
            (<<104, 0>> :> <<"Push", 1>>) @@ (<<232, 0>> :> <<"Call", 1>>) @@
            (<<116, 0>> :> <<"Jcc", 1>>) @@ (<<117, 0>> :> <<"Jcc", 1>>) @@
            [k \in {<<88 + r, 0>> : r \in 0..7} |-> <<"Pop", 1>>]
    IN  /\ \A i \in DOMAIN instrs :
              Ref_Op(instrs[i].at) \in DOMAIN Documented =>
                  /\ instrs[i].memonic = Documented[Ref_Op(instrs[i].at)][1]
                  /\ Len(instrs[i].operands) = Documented[Ref_Op(instrs[i].at)][2]
        /\ (dresult = "Err" /\ derr.kind = "UnknownOpcode") =>
              derr.op \notin DOMAIN Documented

\* The immediate of n bytes at position pos as a 32-bit pattern <<high, low>>,
\* extended with its sign or with zeros.
Ref_Imm(pos, n, signed) ==
    LET b(k) == At(dcode, pos + k) IN
    IF n = 4 THEN <<b(2) + 256 * b(3), b(0) + 256 * b(1)>>
    ELSE IF n = 2
    THEN <<IF signed /\ b(1) >= 128 THEN 65535 ELSE 0, b(0) + 256 * b(1)>>
    ELSE <<IF signed /\ b(0) >= 128 THEN 65535 ELSE 0,
           IF signed /\ b(0) >= 128 THEN 65280 + b(0) ELSE b(0)>>

\* The operand of an immediate and the cursor behind it.
Ref_ImmIs(i, k, pos, n, signed) ==
    /\ instrs[i].operands[k].kind = (IF signed THEN "Imm32s" ELSE "Imm32")
    /\ instrs[i].operands[k].bits = Ref_Imm(pos, n, signed)
    /\ instrs[i].next = pos + n

\* C16: a 'bs' immediate is one byte, sign-extended; a 'v' immediate is 4 bytes
\* unsigned, or 2 bytes zero-extended under the prefix 0x66; a 'vs' immediate is
\* 4 bytes signed, or 2 bytes sign-extended under 0x66; the cursor advances by
\* the bytes read.  (Push is I/vs, Call J/v, Jcc J/bs, Add I/v, Compare I/bs.)
C16_Immediates ==
    \A i \in DOMAIN instrs :
        LET q == Ref_OpcodePos(instrs[i].at)
            op == Ref_Op(instrs[i].at)
            wide == IF Ref_HasPrefix(instrs[i].at, q, 102) THEN 2 ELSE 4
            m == At(dcode, q + 1)
            ea == IF m \div 64 = 3 THEN 0 ELSE IF m \div 64 = 1 THEN 1 ELSE 4
        IN  /\ op = <<104, 0>> => Ref_ImmIs(i, 1, q + 1, wide, TRUE)
            /\ op = <<232, 0>> => Ref_ImmIs(i, 1, q + 1, wide, FALSE)
            /\ op = <<117, 0>> => Ref_ImmIs(i, 1, q + 1, 1, TRUE)
            /\ op = <<129, 0>> => Ref_ImmIs(i, 2, q + 2 + ea, wide, FALSE)
            /\ op = <<131, 7>> => Ref_ImmIs(i, 2, q + 2 + ea, 1, TRUE)

\* C16: the disassembly finished with a push of a negative 16-bit immediate
\* under 0x66, sign-extended, and an add of a 16-bit immediate, zero-extended.
C16_Witness ==
    /\ dresult = "Ok"
    /\ \E i, j \in DOMAIN instrs :
          /\ instrs[i].memonic = "Push"
          /\ instrs[i].operands[1].bits = <<65535, 32769>>
          /\ instrs[j].memonic = "Add"
          /\ instrs[j].operands[2].bits = <<0, 32769>>

\* The opcode bytes that lookup_op's masked fallback maps onto the entry of
\* Push (0x68) and onto the entry of Call (0xE8).
Ref_PushNeighbours == 105 .. 111

Ref_CallNeighbours == 233 .. 239

RECURSIVE Ref_ByteLengths(_)
Ref_ByteLengths(is) ==
    IF is = <<>> THEN 0
    ELSE (is[1].next - is[1].at) + Ref_ByteLengths(Tail(is))

\* C30: disassemble ends with a value on every buffer.  Each returned
\* instruction is at least one byte long, starts where the one before it ends
\* and ends inside the buffer; a success has instructions whose lengths sum to
\* the length of the buffer; every other end is the return of the error of the
\* first decode_one that failed, the one at the end of the last instruction.
C30_DisassembleCovers ==
    /\ \A i \in DOMAIN instrs :
          /\ instrs[i].at < instrs[i].next
          /\ instrs[i].next <= Len(dcode)
          /\ instrs[i].at = IF i = 1 THEN 0 ELSE instrs[i - 1].next
    /\ dresult = "Ok" => Ref_ByteLengths(instrs) = Len(dcode)
    /\ dresult \notin {"none", "Ok"} =>
          /\ dresult = "Err"
          /\ derr.at = Ref_ByteLengths(instrs)

\* The same without the demand that an end that is no success is an error
\* value: what holds of disassemble whether decode_one returns or aborts.
Ref_C30_Progress ==
    /\ \A i \in DOMAIN instrs :
          /\ instrs[i].at < instrs[i].next
          /\ instrs[i].next <= Len(dcode)
          /\ instrs[i].at = IF i = 1 THEN 0 ELSE instrs[i - 1].next
    /\ dresult = "Ok" => Ref_ByteLengths(instrs) = Len(dcode)
    /\ dresult \notin {"none", "Ok"} => derr.at = Ref_ByteLengths(instrs)
    /\ ip <= Len(dcode)

-----------------------------------------------------------------------------
(* i386::Interpreter, the machine that add_shape_to_render drives.  Its    *)
(* source is outside this tree; its operations follow the Interpreter / VM *)
(* section of the specification.  Values and addresses are 32-bit pairs.   *)

\* a + b modulo 2^32.
Add32(a, b) ==
    LET lo == a[2] + b[2]
        hi == a[1] + b[1] + (lo \div 65536)
    IN  <<hi % 65536, lo % 65536>>

\* The arithmetic shift right by one.
Sar32(a) ==
    << (a[1] \div 2) + (IF a[1] >= 32768 THEN 32768 ELSE 0),
       (a[2] \div 2) + 32768 * (a[1] % 2) >>

\* The four little-endian bytes of a 32-bit value.
Bytes32(v) == <<v[2] % 256, v[2] \div 256, v[1] % 256, v[1] \div 256>>

\* The registers of the register file.
Regs == {"EAX", "ECX", "EDX", "EBX", "ESP", "EBP", "ESI", "EDI"}

\* The entries of the memory map: a constant word, a writable byte buffer, a
\* trampoline descriptor (symbol name and arity).
MapValue(addr, v) ==
    [kind |-> "value", addr |-> addr, v |-> v, bytes |-> <<>>, name |-> "", arity |-> 0]
MapWritable(addr, bytes) ==
    [kind |-> "writable", addr |-> addr, v |-> <<0, 0>>, bytes |-> bytes,
     name |-> "", arity |-> 0]
MapTrampoline(addr, name, arity) ==
    [kind |-> "trampoline", addr |-> addr, v |-> <<0, 0>>, bytes |-> <<>>,
     name |-> name, arity |-> arity]

\* ExitInfo: OutOfInstructions, Trampoline(name, args), or none yet.
NoExit == [kind |-> "None", name |-> "", args |-> <<>>]
OutOfInstructions == [kind |-> "OutOfInstructions", name |-> "", args |-> <<>>]
Trampoline(name, args) == [kind |-> "Trampoline", name |-> name, args |-> args]

\* The runtime error of a faulted call, or none.
NoFault == [kind |-> "None", address |-> <<0, 0>>]

\* Interpreter::new: nothing mapped, no code, the session Ready.
Interpreter_new ==
    [regs |-> [r \in Regs |-> <<0, 0>>], zf |-> FALSE, eip |-> <<0, 0>>,
     stack |-> <<>>, mem |-> <<>>, code |-> <<>>,
     state |-> "Ready", exit |-> NoExit, err |-> NoFault, call_at |-> <<0, 0>>]

\* Interpreter::map_value, map_writable, add_trampoline, add_code.
map_value(it, addr, v) == [it EXCEPT !.mem = Append(@, MapValue(addr, v))]
map_writable(it, addr, bytes) == [it EXCEPT !.mem = Append(@, MapWritable(addr, bytes))]
add_trampoline(it, addr, name, arity) ==
    [it EXCEPT !.mem = Append(@, MapTrampoline(addr, name, arity))]
add_code(it, bytecode) == [it EXCEPT !.code = Append(@, bytecode)]

\* Interpreter::set_register_value and Interpreter::eip.
set_register_value(it, reg, v) == [it EXCEPT !.regs[reg] = v]
eip(it) == it.eip

\* Whether a map entry serves the 32-bit access at address a.
Covers(m, a) ==
    IF m.kind = "writable"
    THEN /\ a[1] = m.addr[1]
         /\ m.addr[2] <= a[2]
         /\ a[2] + 4 <= m.addr[2] + Len(m.bytes)
    ELSE a = m.addr

\* The index of the map entry of address a, 0 when a is unmapped.
MapIndex(mem, a) ==
    LET hits == {i \in DOMAIN mem : Covers(mem[i], a)} IN
    IF hits = {} THEN 0 ELSE CHOOSE i \in hits : \A j \in hits : i <= j

\* The outcome of a memory access: st, the value read, the memory after it.
Access(st, v, mem, a) == [st |-> st, v |-> v, mem |-> mem, address |-> a]

\* A 32-bit read: a constant word or the bytes of a writable buffer; a read of
\* a trampoline yields the trampoline; an unmapped address is an error.
MemRead(mem, a) ==
    LET i == MapIndex(mem, a) IN
    IF i = 0 THEN Access("UnmappedMemoryAccess", <<0, 0>>, mem, a)
    ELSE IF mem[i].kind = "value" THEN Access("Ok", mem[i].v, mem, a)
    ELSE IF mem[i].kind = "writable"
    THEN Access("Ok", LE32At(mem[i].bytes, a[2] - mem[i].addr[2]), mem, a)
    ELSE Access("Trampoline", <<0, 0>>, mem, a)

\* bytes with the four bytes at index k replaced by those of v.
Patch(bytes, k, v) ==
    [j \in DOMAIN bytes |->
        IF k < j /\ j <= k + 4 THEN Bytes32(v)[j - k] ELSE bytes[j]]

\* A 32-bit write: only a writable buffer accepts it.
MemWrite_Permissive(mem, a, v) ==
    LET i == MapIndex(mem, a) IN
    IF i = 0 THEN Access("UnmappedMemoryAccess", <<0, 0>>, mem, a)
    ELSE IF mem[i].kind = "writable"
    THEN Access("Ok", v, [mem EXCEPT ![i].bytes = Patch(@, a[2] - mem[i].addr[2], v)], a)
    ELSE IF mem[i].kind = "value"
    THEN Access("Ok", v, [mem EXCEPT ![i].v = v], a)
    ELSE Access("WriteToReadOnlyOrTrampoline", <<0, 0>>, mem, a)

MemWrite(mem, a, v) ==
    LET i == MapIndex(mem, a) IN
    IF i = 0 THEN Access("UnmappedMemoryAccess", <<0, 0>>, mem, a)
    ELSE IF mem[i].kind = "writable"
    THEN Access("Ok", v, [mem EXCEPT ![i].bytes = Patch(@, a[2] - mem[i].addr[2], v)], a)
    ELSE Access("WriteToReadOnlyOrTrampoline", <<0, 0>>, mem, a)

\* The address of a memory operand: its displacement, plus its base register.
OperandAddr(it, o) ==
    IF o.reg = "None" THEN o.bits ELSE Add32(it.regs[o.reg], o.bits)

\* The value of an operand.
ReadOperand(it, o) ==
    IF o.kind = "Register" THEN Access("Ok", it.regs[o.reg], it.mem, <<0, 0>>)
    ELSE IF o.kind = "Memory" THEN MemRead(it.mem, OperandAddr(it, o))
    ELSE Access("Ok", o.bits, it.mem, <<0, 0>>)

\* The interpreter after a store of v to a destination operand, st as Access.
WriteOperand(it, o, v) ==
    IF o.kind = "Register"
    THEN [st |-> "Ok", it |-> [it EXCEPT !.regs[o.reg] = v], address |-> <<0, 0>>]
    ELSE LET w == MemWrite(it.mem, OperandAddr(it, o), v) IN
         [st |-> w.st, it |-> [it EXCEPT !.mem = w.mem], address |-> w.address]

\* The call ends with a RuntimeError: the session is Faulted, nothing else of
\* the interpreter changes and no ExitInfo is returned.
Fault(it, kind, a) ==
    [it EXCEPT !.state = "Faulted", !.err = [kind |-> kind, address |-> a],
               !.exit = NoExit]

\* The call yields at the trampoline m: the arguments are the top `arity`
\* words of the stack, taken off it, and eip is where the caller resumes.
Suspend(it, m, at, resume_at) ==
    IF Len(it.stack) < m.arity
    THEN Fault(it, "UnmappedMemoryAccess", <<0, 0>>)
    ELSE [it EXCEPT !.state = "Suspended",
                    !.exit = Trampoline(m.name, SubSeq(it.stack, 1, m.arity)),
                    !.stack = SubSeq(it.stack, m.arity + 1, Len(it.stack)),
                    !.eip = resume_at, !.call_at = at]

\* The call ran out of instructions.
Halt(it) == [it EXCEPT !.state = "Halted", !.exit = OutOfInstructions]

\* The address of instruction i of a code block.
InstrAddr(block, i) == Add32(block.addr, <<0, block.instrs[i].at>>)

\* The code blocks that hold an instruction at address a.
BlocksAt(it, a) ==
    {b \in DOMAIN it.code :
        \E i \in DOMAIN it.code[b].instrs : InstrAddr(it.code[b], i) = a}

\* Whether an entry of the map is a trampoline at address a.
IsTrampoline(mem, a) ==
    MapIndex(mem, a) # 0 /\ mem[MapIndex(mem, a)].kind = "trampoline"

\* A store to the destination o ends the instruction: the interpreter after
\* it, or the fault of the store (which leaves `it` as it was).
Store(it, upd, o, v, next) ==
    LET w == WriteOperand(upd, o, v) IN
    IF w.st # "Ok" THEN Fault(it, w.st, w.address)
    ELSE [w.it EXCEPT !.eip = next]

\* One instruction at address `at` of a block mapped at `base`.  Add and Compare
\* set the zero flag and nothing else.  A Pop or a Return on an empty stack
\* reads outside the stack region, as does a trampoline call with fewer stack
\* words than its arity: UnmappedMemoryAccess.
Exec(it, ins, base, at) ==
    LET next == Add32(base, <<0, ins.next>>)
        none == Access("Ok", <<0, 0>>, it.mem, <<0, 0>>)
        ra == IF ins.memonic \in {"Add", "Compare", "Sar", "Push", "Jcc", "Call"}
              THEN ReadOperand(it, ins.operands[1]) ELSE none
        rb == IF ins.memonic \in {"Move", "Add", "Compare"}
              THEN ReadOperand(it, ins.operands[2]) ELSE none
        bad == IF ra.st # "Ok" THEN ra ELSE rb
    IN
    IF bad.st = "Trampoline"
    THEN Suspend(it, it.mem[MapIndex(it.mem, bad.address)], at, next)
    ELSE IF bad.st # "Ok" THEN Fault(it, bad.st, bad.address)
    ELSE CASE ins.memonic = "Move" -> Store(it, it, ins.operands[1], rb.v, next)
           [] ins.memonic = "Add" ->
                LET r == Add32(ra.v, rb.v) IN
                Store(it, [it EXCEPT !.zf = (r = <<0, 0>>)], ins.operands[1], r, next)
           [] ins.memonic = "Compare" ->
                [it EXCEPT !.zf = (ra.v = rb.v), !.eip = next]
           [] ins.memonic = "Sar" -> Store(it, it, ins.operands[1], Sar32(ra.v), next)
           [] ins.memonic = "Jcc" ->
                [it EXCEPT !.eip = IF (ins.cond = "ZF=0") = (~it.zf)
                                   THEN Add32(next, ra.v) ELSE next]
           [] ins.memonic = "Push" ->
                [it EXCEPT !.stack = <<ra.v>> \o @, !.eip = next]
           [] ins.memonic = "Pop" ->
                IF it.stack = <<>> THEN Fault(it, "UnmappedMemoryAccess", <<0, 0>>)
                ELSE Store(it, [it EXCEPT !.stack = Tail(@)], ins.operands[1],
                           Head(it.stack), next)
           [] ins.memonic = "Call" ->
                LET target == Add32(next, ra.v) IN
                IF IsTrampoline(it.mem, target)
                THEN Suspend(it, it.mem[MapIndex(it.mem, target)], at, next)
                ELSE [it EXCEPT !.stack = <<next>> \o @, !.eip = target]
           [] ins.memonic = "Return" ->
                IF it.stack = <<>> THEN Fault(it, "UnmappedMemoryAccess", <<0, 0>>)
                ELSE [it EXCEPT !.eip = Head(it.stack), !.stack = Tail(@)]

\* One step of Interpreter::interpret: the instruction at eip, or
\* OutOfInstructions when no code block has one there.
InterpretStep(it) ==
    LET found == BlocksAt(it, it.eip) IN
    IF found = {} THEN Halt(it)
    ELSE LET b == CHOOSE x \in found : \A y \in found : x <= y
             i == CHOOSE j \in DOMAIN it.code[b].instrs :
                      InstrAddr(it.code[b], j) = it.eip
         IN  Exec(it, it.code[b].instrs[i], it.code[b].addr, it.eip)

\* Interpreter::interpret(at) is entered: the session runs from address at.
InterpretEnter(it, at) ==
    [it EXCEPT !.state = "Running", !.eip = at, !.exit = NoExit, !.err = NoFault]

-----------------------------------------------------------------------------
(* apps/show-sh-raw: RawShRenderer::add_shape_to_render.                   *)

\* 0xAA00_0000 + off, the address the renderer gives byte offset off.
ShapeAddr(off) == <<43520, off>>

\* X86Code::code_offset: the code of the record follows its two-byte header.
code_offset(rec) == ShapeAddr(rec.at + 2)

\* INST_BASE: 0x0000_4000.
INST_BASE == <<0, 16384>>

\* The trampolines the interpreter hands back to the renderer.
call_names == {"do_start_interp", "_CATGUYDraw@4", "@HARDNumLoaded@8",
               "@HardpointAngle@4", "_InsectWingAngle@0"}

\* An Option<u32> position as u32: is_some() and unwrap_or(0).
IsSome(o) == IF o # <<>> THEN 1 ELSE 0
UnwrapOr0(o) == IF o # <<>> THEN o[1] ELSE 0
AsU32(b) == IF b THEN 1 ELSE 0

\* The constant word that a named port is mapped to.
PortValues(mode) ==
    ("_currentTicks" :> <<0, mode.current_ticks>>) @@
    ("_lowMemory" :> <<0, 0>>) @@
    ("_nightHazing" :> <<0, 1>>) @@
    ("_PLafterBurner" :> <<0, AsU32(mode.afterburner_enabled)>>) @@
    ("_PLbayOpen" :> <<0, IsSome(mode.bay_position)>>) @@
    ("_PLbayDoorPos" :> <<0, UnwrapOr0(mode.bay_position)>>) @@
    ("_PLbrake" :> <<0, AsU32(mode.airbrake_extended)>>) @@
    ("_PLcanardPos" :> <<0, 0>>) @@
    ("_PLdead" :> <<0, 0>>) @@
    ("_PLgearDown" :> <<0, IsSome(mode.gear_position)>>) @@
    ("_PLgearPos" :> <<0, UnwrapOr0(mode.gear_position)>>) @@
    ("_PLhook" :> <<0, AsU32(mode.hook_extended)>>) @@
    ("_PLrightFlap" :> IF mode.flaps_down THEN <<65535, 65535>> ELSE <<0, 0>>) @@
    ("_PLleftFlap" :> IF mode.flaps_down THEN <<65535, 65535>> ELSE <<0, 0>>) @@
    ("_PLrightAln" :> <<0, mode.right_aileron_position>>) @@
    ("_PLleftAln" :> <<0, mode.left_aileron_position>>) @@
    ("_PLrudder" :> <<0, mode.rudder_position>>) @@
    ("_PLslats" :> <<0, AsU32(mode.slats_down)>>) @@
    ("_PLstate" :> <<0, 0>>) @@
    ("_PLswingWing" :> <<0, 0>>) @@
    ("_PLvtAngle" :> <<0, 0>>) @@
    ("_PLvtOn" :> <<0, 0>>) @@
    ("_SAMcount" :> <<0, mode.sam_count>>) @@
    ("brentObjId" :> INST_BASE)

\* The writable buffer that a named port is mapped to.
PortBuffers ==
    ("_effectsAllowed" :> <<2, 0, 0, 0>>) @@
    ("_effects" :> <<2, 0, 0, 0>>) @@
    ("lighteningAllowed" :> <<0, 0, 0, 0>>) @@
    ("mapAdj" :> <<0, 0, 0, 0>>) @@
    ("_v" :> [i \in 1 .. 256 |-> IF i = 143 + 1 THEN 1 ELSE 0])

\* The loop over sh.trampolines: a call name becomes a trampoline of arity 1,
\* a known port a constant word or a buffer, any other name stays unmapped.
RECURSIVE MapTrampolines(_, _, _, _)
MapTrampolines(it, tramps, i, mode) ==
    IF i > Len(tramps) THEN it
    ELSE LET tramp == tramps[i] IN
         MapTrampolines(
            IF tramp.name \in call_names
            THEN add_trampoline(it, tramp.mem_location, tramp.name, 1)
            ELSE IF tramp.name \in DOMAIN PortValues(mode)
            THEN map_value(it, tramp.mem_location, PortValues(mode)[tramp.name])
            ELSE IF tramp.name \in DOMAIN PortBuffers
            THEN map_writable(it, tramp.mem_location, PortBuffers[tramp.name])
            ELSE it,
            tramps, i + 1, mode)

\* The loop over sh.instrs: the data records become writable buffers and the
\* code of every X86Code record is added.
RECURSIVE MapInstrs(_, _, _)
MapInstrs(it, recs, i) ==
    IF i > Len(recs) THEN it
    ELSE LET rec == recs[i] IN
         MapInstrs(
            IF rec.kind = "XformUnmask"
            THEN map_writable(it, ShapeAddr(rec.at + 2), rec.data)
            ELSE IF rec.kind = "UnknownData"
            THEN map_writable(it, ShapeAddr(rec.at), rec.data)
            ELSE IF rec.kind = "X86Code"
            THEN add_code(it, [addr |-> code_offset(rec), instrs |-> rec.bytecode])
            ELSE it,
            recs, i + 1)

\* The interpreter when the record loop starts.
SetupInterpreter(shape, mode) ==
    MapInstrs(MapTrampolines(Interpreter_new, shape.trampolines, 1, mode),
              shape.instrs, 1)

\* CpuShape::bytes_to_index: the index of the record at a byte offset, or -1
\* for the error.
bytes_to_index(shape, off) ==
    LET hits == {i \in DOMAIN shape.instrs : shape.instrs[i].at = off} IN
    IF hits = {} THEN -1 ELSE (CHOOSE i \in hits : TRUE) - 1

\* CpuShape::map_interpreter_offset_to_instr_offset: the index of the record at
\* an interpreter address, or -1 for None.
map_interpreter_offset_to_instr_offset(shape, a) ==
    IF a[1] # ShapeAddr(0)[1] THEN -1 ELSE bytes_to_index(shape, a[2])

\* The record at the cursor.
CurInstr == sh.instrs[roffset + 1]

\* The ranged mode skips the record at the cursor.
RangeSkips ==
    /\ draw_mode.range # <<>>
    /\ \/ byte_offset < draw_mode.range[1]
       \/ byte_offset >= draw_mode.range[2]

\* The checks at the head of the loop let the record at the cursor through.
PassesHead ==
    /\ roffset < Len(sh.instrs)
    /\ ~RangeSkips
    /\ ~(roffset > draw_mode.stop_at_offset)
    /\ section_close # <<byte_offset>>
    /\ ~(damage_target = <<byte_offset>> /\ ~draw_mode.damaged)

\* The head of the loop is passed: the loop is at `match instr`.
LoopDispatch ==
    /\ rpc = "loop"
    /\ PassesHead
    /\ rpc' = "match"
    /\ UNCHANGED <<sh, draw_mode, interp, roffset, byte_offset, section_close,
                   damage_target>>
    /\ UNCHANGED <<shapeVars, disVars, extVars>>

\* The loop is at the arm of the match for the record at the cursor.
Dispatches == rpc = "match"

\* `while offset < sh.instrs.len()` ends the loop.
LoopEnds ==
    /\ rpc = "loop"
    /\ ~(roffset < Len(sh.instrs))
    /\ rpc' = "done"
    /\ UNCHANGED <<sh, draw_mode, interp, roffset, byte_offset, section_close,
                   damage_target>>
    /\ UNCHANGED <<shapeVars, disVars, extVars>>

\* The ranged mode: a record outside the range is passed over.
RangeSkip ==
    /\ rpc = "loop"
    /\ roffset < Len(sh.instrs)
    /\ RangeSkips
    /\ byte_offset' = byte_offset + CurInstr.size
    /\ roffset' = roffset + 1
    /\ UNCHANGED <<sh, draw_mode, interp, section_close, damage_target, rpc>>
    /\ UNCHANGED <<shapeVars, disVars, extVars>>

\* The breaks at the head of the loop: the configured stopping point, the
\* close of the section, the damage section in a non-damage draw mode.
LoopBreaks ==
    /\ rpc = "loop"
    /\ roffset < Len(sh.instrs)
    /\ ~RangeSkips
    /\ \/ roffset > draw_mode.stop_at_offset
       \/ section_close = <<byte_offset>>
       \/ damage_target = <<byte_offset>> /\ ~draw_mode.damaged
    /\ rpc' = "done"
    /\ UNCHANGED <<sh, draw_mode, interp, roffset, byte_offset, section_close,
                   damage_target>>
    /\ UNCHANGED <<shapeVars, disVars, extVars>>

\* `continue` with the cursor on the record at byte offset target; the `?` on
\* bytes_to_index returns the error.
JumpTo(target) ==
    /\ byte_offset' = target
    /\ IF bytes_to_index(sh, target) = -1
       THEN rpc' = "err" /\ roffset' = roffset
       ELSE rpc' = "loop" /\ roffset' = bytes_to_index(sh, target)

\* The end of the loop body: offset += 1; byte_offset += instr.size().
Advance_KeepsByteOffset ==
    /\ roffset' = roffset + 1
    /\ byte_offset' = byte_offset
    /\ rpc' = "loop"

Advance ==
    /\ roffset' = roffset + 1
    /\ byte_offset' = byte_offset + CurInstr.size
    /\ rpc' = "loop"

\* Instr::Jump.
Jump ==
    /\ Dispatches
    /\ CurInstr.kind = "Jump"
    /\ JumpTo(CurInstr.target)
    /\ UNCHANGED <<sh, draw_mode, interp, section_close, damage_target>>
    /\ UNCHANGED <<shapeVars, disVars, extVars>>

\* Instr::JumpToFrame: the target of the frame of the draw mode.
JumpToFrame ==
    /\ Dispatches
    /\ CurInstr.kind = "JumpToFrame"
    /\ JumpTo(CurInstr.target)
    /\ UNCHANGED <<sh, draw_mode, interp, section_close, damage_target>>
    /\ UNCHANGED <<shapeVars, disVars, extVars>>

\* Instr::JumpToDamage.
JumpToDamage ==
    /\ Dispatches
    /\ CurInstr.kind = "JumpToDamage"
    /\ damage_target' = <<CurInstr.target>>
    /\ IF draw_mode.damaged THEN JumpTo(CurInstr.target) ELSE Advance
    /\ UNCHANGED <<sh, draw_mode, interp, section_close>>
    /\ UNCHANGED <<shapeVars, disVars, extVars>>

\* Instr::JumpToLOD.
JumpToLOD ==
    /\ Dispatches
    /\ CurInstr.kind = "JumpToLOD"
    /\ IF draw_mode.closeness > CurInstr.unk1
       THEN section_close' = <<CurInstr.target>> /\ Advance
       ELSE section_close' = section_close /\ JumpTo(CurInstr.target)
    /\ UNCHANGED <<sh, draw_mode, interp, damage_target>>
    /\ UNCHANGED <<shapeVars, disVars, extVars>>

\* Instr::JumpToDetail.
JumpToDetail ==
    /\ Dispatches
    /\ CurInstr.kind = "JumpToDetail"
    /\ IF draw_mode.detail = CurInstr.level
       THEN section_close' = section_close /\ JumpTo(CurInstr.target)
       ELSE section_close' = <<CurInstr.target>> /\ Advance
    /\ UNCHANGED <<sh, draw_mode, interp, damage_target>>
    /\ UNCHANGED <<shapeVars, disVars, extVars>>

\* Instr::EndOfObject.
EndOfObject ==
    /\ Dispatches
    /\ CurInstr.kind = "EndOfObject"
    /\ rpc' = "done"
    /\ UNCHANGED <<sh, draw_mode, interp, roffset, byte_offset, section_close,
                   damage_target>>
    /\ UNCHANGED <<shapeVars, disVars, extVars>>

\* The records that move no cursor: Header, PtrToObjEnd, the unmask records
\* and the data records.
PassiveKinds == {"Header", "PtrToObjEnd", "XformUnmask", "UnknownData"}

PassOver ==
    /\ Dispatches
    /\ CurInstr.kind \in PassiveKinds
    /\ Advance
    /\ UNCHANGED <<sh, draw_mode, interp, section_close, damage_target>>
    /\ UNCHANGED <<shapeVars, disVars, extVars>>

\* Instr::X86Code: interp.interpret(code.code_offset(0xAA00_0000)) is entered.
X86Enter ==
    /\ Dispatches
    /\ CurInstr.kind = "X86Code"
    /\ interp' = InterpretEnter(interp, code_offset(CurInstr))
    /\ rpc' = "interpret"
    /\ UNCHANGED <<sh, draw_mode, roffset, byte_offset, section_close, damage_target>>
    /\ UNCHANGED <<shapeVars, disVars, extVars>>

\* Interpreter::interpret executes one instruction, in the first call or in
\* the call that resumes it.
InterpretRuns ==
    /\ rpc \in {"interpret", "resume"}
    /\ interp.state = "Running"
    /\ interp' = InterpretStep(interp)
    /\ UNCHANGED <<sh, draw_mode, roffset, byte_offset, section_close,
                   damage_target, rpc>>
    /\ UNCHANGED <<shapeVars, disVars, extVars>>

\* ExitInfo::OutOfInstructions => break.
X86OutOfInstructions_Continues ==
    /\ rpc = "interpret"
    /\ interp.state = "Halted"
    /\ Advance
    /\ UNCHANGED <<sh, draw_mode, interp, section_close, damage_target>>
    /\ UNCHANGED <<shapeVars, disVars, extVars>>

X86OutOfInstructions ==
    /\ rpc = "interpret"
    /\ interp.state = "Halted"
    /\ rpc' = "done"
    /\ UNCHANGED <<sh, draw_mode, interp, roffset, byte_offset, section_close,
                   damage_target>>
    /\ UNCHANGED <<shapeVars, disVars, extVars>>

\* interpret(...).unwrap() on a runtime error.
X86UnwrapPanics ==
    /\ rpc = "interpret"
    /\ interp.state = "Faulted"
    /\ rpc' = "panic"
    /\ UNCHANGED <<sh, draw_mode, interp, roffset, byte_offset, section_close,
                   damage_target>>
    /\ UNCHANGED <<shapeVars, disVars, extVars>>

\* byte_offset = args[0] - 0xAA00_0000; offset = map_..._offset(args[0]).unwrap();
\* continue.  An address with no record panics in the unwrap.
ResumeRecords_KeepsByteOffset(a) ==
    IF map_interpreter_offset_to_instr_offset(sh, a) = -1
    THEN rpc' = "panic" /\ UNCHANGED <<roffset, byte_offset>>
    ELSE /\ byte_offset' = byte_offset
         /\ roffset' = map_interpreter_offset_to_instr_offset(sh, a)
         /\ rpc' = "loop"

ResumeRecords(a) ==
    IF map_interpreter_offset_to_instr_offset(sh, a) = -1
    THEN rpc' = "panic" /\ UNCHANGED <<roffset, byte_offset>>
    ELSE /\ byte_offset' = a[2]
         /\ roffset' = map_interpreter_offset_to_instr_offset(sh, a)
         /\ rpc' = "loop"

\* The trampoline do_start_interp of the first call.
X86StartInterp ==
    /\ rpc = "interpret"
    /\ interp.state = "Suspended"
    /\ interp.exit.name = "do_start_interp"
    /\ ResumeRecords(interp.exit.args[1])
    /\ UNCHANGED <<sh, draw_mode, interp, section_close, damage_target>>
    /\ UNCHANGED <<shapeVars, disVars, extVars>>

\* The value that the renderer returns in EAX for a call.
ReturnValues ==
    ("@HARDNumLoaded@8" :> <<0, 1>>) @@
    ("@HardpointAngle@4" :> <<0, 256>>) @@
    ("_InsectWingAngle@0" :> <<0, 256>>)

\* Where the renderer re-invokes interpret after a call: interp.eip().
ResumeEntry_Restart(it, rec) == code_offset(rec)
ResumeEntry(it, rec) == eip(it)

\* A call that returns a value: set_register_value(EAX, v), then
\* interp.interpret(interp.eip()) is entered.
X86Resume ==
    /\ rpc = "interpret"
    /\ interp.state = "Suspended"
    /\ interp.exit.name \in DOMAIN ReturnValues
    /\ interp' = InterpretEnter(
                    set_register_value(interp, "EAX", ReturnValues[interp.exit.name]),
                    ResumeEntry(interp, CurInstr))
    /\ rpc' = "resume"
    /\ UNCHANGED <<sh, draw_mode, roffset, byte_offset, section_close, damage_target>>
    /\ UNCHANGED <<shapeVars, disVars, extVars>>

\* bail!("don't know how to handle {}", name).
X86Bails ==
    /\ rpc = "interpret"
    /\ interp.state = "Suspended"
    /\ interp.exit.name \notin DOMAIN ReturnValues \cup {"do_start_interp"}
    /\ rpc' = "err"
    /\ UNCHANGED <<sh, draw_mode, interp, roffset, byte_offset, section_close,
                   damage_target>>
    /\ UNCHANGED <<shapeVars, disVars, extVars>>

\* The resumed call: the `?` on a runtime error, ok_trampoline()? on
\* OutOfInstructions, the two ensure!s on the trampoline returned.
ResumeFails ==
    /\ rpc = "resume"
    /\ \/ interp.state \in {"Faulted", "Halted"}
       \/ /\ interp.state = "Suspended"
          /\ \/ interp.exit.name # "do_start_interp"
             \/ Len(interp.exit.args) # 1
    /\ rpc' = "err"
    /\ UNCHANGED <<sh, draw_mode, interp, roffset, byte_offset, section_close,
                   damage_target>>
    /\ UNCHANGED <<shapeVars, disVars, extVars>>

\* The resumed call returns the trampoline do_start_interp.
ResumeStartInterp ==
    /\ rpc = "resume"
    /\ interp.state = "Suspended"
    /\ interp.exit.name = "do_start_interp"
    /\ Len(interp.exit.args) = 1
    /\ ResumeRecords(interp.exit.args[1])
    /\ UNCHANGED <<sh, draw_mode, interp, section_close, damage_target>>
    /\ UNCHANGED <<shapeVars, disVars, extVars>>

-----------------------------------------------------------------------------
(* The shapes and draw modes the record loop is run on. *)

\* sh.trampolines: the thunks of the shape, six bytes apart.
ShapeTrampolines ==
    << [name |-> "do_start_interp", mem_location |-> ShapeAddr(256)],
       [name |-> "@HARDNumLoaded@8", mem_location |-> ShapeAddr(262)],
       [name |-> "_CATGUYDraw@4", mem_location |-> ShapeAddr(268)],
       [name |-> "_PLgearDown", mem_location |-> ShapeAddr(274)],
       [name |-> "_effects", mem_location |-> ShapeAddr(280)],
       [name |-> "_unknownPort", mem_location |-> ShapeAddr(286)],
       [name |-> "@HardpointAngle@4", mem_location |-> ShapeAddr(292)],
       [name |-> "_InsectWingAngle@0", mem_location |-> ShapeAddr(298)] >>

\* The encodings of the instructions the programs are built from.
PushImm(v) == <<104>> \o Bytes32(v)
CallRel(next, target) == <<232>> \o Bytes32(<<0, target - next>>)
CompareEax(b) == <<131, 248, b>>
JccRel(b) == <<117, b>>
PopEcx == <<89>>
MoveEaxEcx == <<137, 200>>
StoreEcx(a) == <<137, 13>> \o Bytes32(a)
LoadEax(a) == <<161>> \o Bytes32(a)
AddMem(a, v) == <<129, 5>> \o Bytes32(a) \o Bytes32(v)
SarEax == <<209, 248>>
Ret == <<195>>

\* The programs of the X86Code records: co is the byte offset of the code and
\* target the byte offset that do_start_interp is called with.
ProgNames == {"start", "hard", "hard_twice", "hard_again", "catguy", "off_end",
              "ret", "spin", "load_value", "load_unmapped", "load_trampoline",
              "store_value", "store_trampoline", "store_unmapped", "store_buffer",
              "add_buffer", "add_value", "local_call", "angle", "wing"}

Prog(name, co, target) ==
    CASE name = "start" ->
           PushImm(ShapeAddr(target)) \o CallRel(co + 10, 256)
      [] name = "hard" ->
           PushImm(<<0, 7>>) \o CallRel(co + 10, 262) \o CompareEax(1) \o JccRel(10)
           \o PushImm(ShapeAddr(target)) \o CallRel(co + 25, 256)
      [] name = "hard_twice" ->
           PushImm(<<0, 7>>) \o CallRel(co + 10, 262) \o CallRel(co + 15, 262)
      [] name = "hard_again" ->
           PushImm(<<0, 7>>) \o CallRel(co + 10, 262) \o CompareEax(2) \o JccRel(246)
      [] name = "catguy" ->
           PushImm(<<0, 7>>) \o CallRel(co + 10, 268)
      [] name = "off_end" -> MoveEaxEcx \o SarEax
      [] name = "ret" -> Ret
      [] name = "spin" -> CompareEax(1) \o JccRel(251)
      [] name = "load_value" -> LoadEax(ShapeAddr(274))
      [] name = "load_unmapped" -> LoadEax(ShapeAddr(286))
      [] name = "load_trampoline" -> PushImm(<<0, 7>>) \o LoadEax(ShapeAddr(262))
      [] name = "store_value" -> StoreEcx(ShapeAddr(274))
      [] name = "store_trampoline" -> StoreEcx(ShapeAddr(256))
      [] name = "store_unmapped" -> StoreEcx(ShapeAddr(286))
      [] name = "store_buffer" ->
           PushImm(<<4660, 22136>>) \o PopEcx \o StoreEcx(ShapeAddr(280))
           \o LoadEax(ShapeAddr(280)) \o PushImm(<<0, 9>>) \o PopEcx
           \o StoreEcx(ShapeAddr(280)) \o LoadEax(ShapeAddr(280))
      [] name = "add_buffer" ->
           AddMem(ShapeAddr(280), <<65535, 65534>>) \o LoadEax(ShapeAddr(280))
      [] name = "add_value" -> AddMem(ShapeAddr(274), <<0, 1>>)
      [] name = "local_call" ->
           CallRel(co + 5, co + 6) \o Ret \o PushImm(<<0, 3>>) \o PopEcx \o Ret
      [] name = "angle" ->
           PushImm(<<0, 7>>) \o CallRel(co + 10, 292)
           \o PushImm(ShapeAddr(target)) \o CallRel(co + 20, 256)
      [] name = "wing" ->
           PushImm(<<0, 7>>) \o CallRel(co + 10, 298)
           \o PushImm(ShapeAddr(target)) \o CallRel(co + 20, 256)

\* Instr::disassemble of a program: the instructions with their offsets.  The
\* decoder keeps a record only when the whole code disassembles.
RECURSIVE Disassemble(_, _)
Disassemble(bytes, at) ==
    IF ~(at < Len(bytes)) THEN <<>>
    ELSE LET d == decode_one(bytes, at) IN
         <<[memonic |-> d.memonic, cond |-> d.cond, operands |-> d.operands,
            at |-> d.at, next |-> d.ip]>> \o Disassemble(bytes, d.ip)

\* The size in bytes of a record of each kind that holds no code.
RecordSizes ==
    [Jump |-> 3, JumpToFrame |-> 4, JumpToDamage |-> 4, JumpToLOD |-> 8,
     JumpToDetail |-> 6, EndOfObject |-> 2, Header |-> 4, PtrToObjEnd |-> 4,
     UnknownData |-> 4, XformUnmask |-> 6]

\* A record template: the kind, the index of the record it targets (0 for a
\* byte offset where no record starts) and the name of its program.
Template(kind, to, prog) == [kind |-> kind, to |-> to, prog |-> prog]

TemplateSize(t) ==
    IF t.kind = "X86Code" THEN 2 + Len(Prog(t.prog, 0, 0)) ELSE RecordSizes[t.kind]

\* The byte offset of record i of a sequence of templates.
RECURSIVE OffsetOf(_, _)
OffsetOf(ts, i) == IF i <= 1 THEN 0 ELSE OffsetOf(ts, i - 1) + TemplateSize(ts[i - 1])

\* The byte offset a template targets: a record of the shape, or offset 1,
\* which is inside the first record.
TargetOf(ts, t) == IF t.to \in DOMAIN ts THEN OffsetOf(ts, t.to) ELSE 1

\* The records of a sequence of templates, laid out from byte offset 0.
Layout(ts) ==
    [i \in DOMAIN ts |->
        LET t == ts[i]
            at == OffsetOf(ts, i)
            bytes == IF t.kind = "X86Code" THEN Prog(t.prog, at + 2, TargetOf(ts, t))
                     ELSE <<>>
        IN  [kind |-> t.kind, at |-> at, size |-> TemplateSize(t),
             target |-> TargetOf(ts, t), unk1 |-> 256, level |-> 2,
             data |-> IF t.kind \in {"UnknownData", "XformUnmask"}
                      THEN <<1, 0, 0, 0>> ELSE <<>>,
             bytecode |-> Disassemble(bytes, 0)]]

JumpKinds == {"Jump", "JumpToFrame", "JumpToDamage", "JumpToLOD", "JumpToDetail"}

\* The templates of the record sequences of n records.
Templates(n) ==
    {Template(k, to, "") : k \in JumpKinds, to \in 0 .. n}
    \cup {Template(k, 0, "") : k \in PassiveKinds \cup {"EndOfObject"}}
    \cup {Template("X86Code", to, "start") : to \in 0 .. n}
    \cup {Template("X86Code", 0, p) : p \in {"off_end", "spin"}}

RECURSIVE TemplateSeqs(_, _)
TemplateSeqs(n, len) ==
    IF len = 0 THEN {<<>>}
    ELSE {Append(s, t) : s \in TemplateSeqs(n, len - 1), t \in Templates(n)}

\* The record sequences that exercise the interpreter: every program, resumed
\* at the record after it, at itself, or at no record.
ProgramSeqs ==
    {<<Template("X86Code", to, p), Template("Header", 0, ""),
       Template("EndOfObject", 0, "")>> : p \in ProgNames, to \in 0 .. 2}
    \cup {<<Template("UnknownData", 0, ""), Template("X86Code", to, p),
            Template("X86Code", 1, "start")>> :
              p \in {"start", "hard", "store_buffer"}, to \in 1 .. 3}

\* The shapes of the model.
Shapes ==
    {[trampolines |-> ShapeTrampolines, instrs |-> Layout(ts)] :
        ts \in UNION {TemplateSeqs(MaxRecords, len) : len \in 1 .. MaxRecords}
               \cup ProgramSeqs}

\* The draw mode of show-sh-raw, with stop_at_offset usize::max_value().
DefaultMode ==
    [range |-> <<>>, damaged |-> FALSE, closeness |-> 512, frame_number |-> 0,
     detail |-> 4, gear_position |-> <<18>>, bay_position |-> <<18>>,
     flaps_down |-> FALSE, slats_down |-> FALSE, airbrake_extended |-> TRUE,
     hook_extended |-> TRUE, afterburner_enabled |-> TRUE, rudder_position |-> 0,
     left_aileron_position |-> 0, right_aileron_position |-> 0, sam_count |-> 4,
     current_ticks |-> 1000, stop_at_offset |-> 2147483647]

\* The draw modes: the default one, a damaged far low-detail one, a ranged one
\* with a stopping point.
Modes ==
    { DefaultMode,
      [DefaultMode EXCEPT !.damaged = TRUE, !.closeness = 0, !.detail = 2],
      [DefaultMode EXCEPT !.range = <<3, 100>>, !.stop_at_offset = 1] }

\* add_shape_to_render reaches the record loop: the interpreter is set up,
\* the cursor is on the first record.
InitRender ==
    /\ code = <<>> /\ offset = 0 /\ instr = <<>> /\ sections = <<>>
    /\ pc = "render" /\ result = "none" /\ tags = <<>> /\ lines = 0
    /\ DisIdle
    /\ ExtIdle
    /\ sh \in Shapes
    /\ draw_mode \in Modes
    /\ interp = SetupInterpreter(sh, draw_mode)
    /\ roffset = 0
    /\ byte_offset = 0
    /\ section_close = <<>>
    /\ damage_target = <<>>
    /\ rpc = "loop"

NextRender ==
    \/ LoopEnds
    \/ LoopDispatch
    \/ RangeSkip
    \/ LoopBreaks
    \/ Jump
    \/ JumpToFrame
    \/ JumpToDamage
    \/ JumpToLOD
    \/ JumpToDetail
    \/ EndOfObject
    \/ PassOver
    \/ X86Enter
    \/ InterpretRuns
    \/ X86OutOfInstructions
    \/ X86UnwrapPanics
    \/ X86StartInterp
    \/ X86Resume
    \/ X86Bails
    \/ ResumeFails
    \/ ResumeStartInterp

SpecRender == InitRender /\ [][NextRender]_vars

\* The record loop always gets to take its next step.
SpecRenderFair == SpecRender /\ WF_vars(NextRender)

-----------------------------------------------------------------------------
(* The claims about the interpreter and the record loop. *)

\* The instructions of the shape's X86Code records that start at address a.
Ref_Fetch(a) ==
    UNION {{sh.instrs[r].bytecode[i] :
               i \in {j \in DOMAIN sh.instrs[r].bytecode :
                         ShapeAddr(sh.instrs[r].at + 2 + sh.instrs[r].bytecode[j].at) = a}} :
           r \in DOMAIN sh.instrs}

\* The instruction at address a is a five-byte Call whose target is the thunk
\* registered under `name`, one of the names the renderer maps as trampolines.
Ref_CallsTrampoline(a, name) ==
    \E ins \in Ref_Fetch(a) :
       /\ ins.memonic = "Call"
       /\ name \in {"do_start_interp", "_CATGUYDraw@4", "@HARDNumLoaded@8",
                    "@HardpointAngle@4", "_InsectWingAngle@0"}
       /\ \E k \in DOMAIN sh.trampolines :
             /\ sh.trampolines[k].name = name
             /\ sh.trampolines[k].mem_location
                   = Add32(Add32(a, <<0, 5>>), ins.operands[1].bits)

\* The value the renderer puts in EAX before it resumes a call.
Ref_Eax(name) == IF name = "@HARDNumLoaded@8" THEN <<0, 1>> ELSE <<0, 256>>

\* C17: a Call to an address mapped as a trampoline makes interpret return
\* Trampoline(name, args) with the name registered for that address; the
\* renderer then sets EAX and re-invokes interpret at the instruction that
\* follows the call, and the resumed execution starts there: it does not yield
\* at that call again.
C17_TrampolineRoundTrip ==
    [][ /\ ( /\ rpc \in {"interpret", "resume"}
             /\ interp.state = "Running"
             /\ interp.stack # <<>>
             /\ \E name \in call_names : Ref_CallsTrampoline(interp.eip, name) )
           => ( /\ interp'.state = "Suspended"
                /\ interp'.exit.kind = "Trampoline"
                /\ Ref_CallsTrampoline(interp.eip, interp'.exit.name)
                /\ interp'.exit.args = <<Head(interp.stack)>> )
        /\ ( rpc = "interpret" /\ rpc' = "resume" )
           => ( /\ interp'.state = "Running"
                /\ interp'.regs["EAX"] = Ref_Eax(interp.exit.name)
                /\ interp'.eip = Add32(interp.call_at, <<0, 5>>) )
        /\ ( /\ rpc = "resume"
             /\ interp.state = "Running"
             /\ interp.eip = Add32(interp.call_at, <<0, 5>>) )
           => ~ ( interp'.state = "Suspended" /\ interp'.call_at = interp.call_at )
      ]_vars

\* A round trip took place: the call was resumed with EAX = 1 and the resumed
\* execution went on to the trampoline do_start_interp.
C17_Witness ==
    /\ rpc = "resume"
    /\ interp.state = "Suspended"
    /\ interp.exit.name = "do_start_interp"
    /\ interp.regs["EAX"] = <<0, 1>>
    /\ interp.call_at # Add32(code_offset(CurInstr), <<0, 5>>)

\* The moves of an interpret session.
Ref_SessionMoves ==
    { <<"Ready", "Running">>, <<"Running", "Running">>, <<"Running", "Halted">>,
      <<"Running", "Suspended">>, <<"Running", "Faulted">>, <<"Suspended", "Running">> }

\* C18 as stated: the session only makes the moves of the state machine, a
\* Suspended session runs again only when the renderer re-invokes interpret
\* after it supplied a register update, and Halted and Faulted are terminal,
\* a fault carrying no ExitInfo.
C18_ResumeOnlyWithUpdates ==
    [][ /\ interp'.state # interp.state
           => <<interp.state, interp'.state>> \in Ref_SessionMoves
        /\ (interp.state = "Suspended" /\ interp'.state = "Running")
           => ( /\ rpc = "interpret" /\ rpc' = "resume"
                /\ interp'.regs["EAX"] = Ref_Eax(interp.exit.name) )
        /\ interp.state \in {"Halted", "Faulted"} => interp' = interp
        /\ interp'.state = "Faulted" => interp'.exit.kind = "None"
      ]_vars

\* C18, amended: a Suspended session runs again only when the renderer
\* re-invokes interpret: at the saved instruction pointer after it set EAX, or,
\* once the trampoline was do_start_interp, at the entry of the X86Code record
\* the record loop has reached, with no register or memory update.
C18_SessionMoves ==
    [][ /\ interp'.state # interp.state
           => <<interp.state, interp'.state>> \in Ref_SessionMoves
        /\ (interp.state = "Suspended" /\ interp'.state = "Running")
           => \/ /\ rpc = "interpret" /\ rpc' = "resume"
                 /\ interp'.regs["EAX"] = Ref_Eax(interp.exit.name)
                 /\ interp'.eip = interp.eip
              \/ /\ rpc = "match" /\ rpc' = "interpret"
                 /\ interp.exit.name = "do_start_interp"
                 /\ interp'.regs = interp.regs /\ interp'.mem = interp.mem
                 /\ interp'.eip = ShapeAddr(sh.instrs[roffset + 1].at + 2)
        /\ interp.state \in {"Halted", "Faulted"} => interp' = interp
        /\ interp'.state = "Faulted" => interp'.exit.kind = "None"
      ]_vars

\* The session was suspended on a call, resumed by the renderer, and the
\* resumed call ended Halted or Faulted with the renderer returning the error.
C18_Witness ==
    /\ rpc = "err"
    /\ interp.state \in {"Halted", "Faulted"}
    /\ interp.regs["EAX"] = <<0, 1>>
    /\ interp.call_at # <<0, 0>>

\* The kind of the mapping that serves a 32-bit access at address a in the
\* memory map mem: "value", "writable", "trampoline", or "none".
Ref_MappedAs(mem, a) ==
    IF \E k \in DOMAIN mem : mem[k].kind = "value" /\ mem[k].addr = a THEN "value"
    ELSE IF \E k \in DOMAIN mem : mem[k].kind = "trampoline" /\ mem[k].addr = a
    THEN "trampoline"
    ELSE IF \E k \in DOMAIN mem :
               /\ mem[k].kind = "writable"
               /\ mem[k].addr[1] = a[1]
               /\ mem[k].addr[2] <= a[2]
               /\ a[2] + 3 < mem[k].addr[2] + Len(mem[k].bytes)
    THEN "writable"
    ELSE "none"

\* The 32-bit word at address a of the writable buffers of mem.
Ref_Word(mem, a) ==
    LET k == CHOOSE i \in DOMAIN mem :
                 /\ mem[i].kind = "writable"
                 /\ mem[i].addr[1] = a[1]
                 /\ mem[i].addr[2] <= a[2]
                 /\ a[2] + 3 < mem[i].addr[2] + Len(mem[i].bytes)
        b == [j \in 1 .. 4 |-> mem[k].bytes[a[2] - mem[k].addr[2] + j]]
    IN  <<b[3] + 256 * b[4], b[1] + 256 * b[2]>>

\* The stores and loads with an absolute address among the instructions at
\* the instruction pointer: Move [a], reg; Add [a], imm; Move EAX, [a].
Ref_StoresAt(a) ==
    {ins \in Ref_Fetch(a) :
        /\ ins.memonic = "Move"
        /\ ins.operands[1].kind = "Memory" /\ ins.operands[1].reg = "None"
        /\ ins.operands[2].kind = "Register"}
Ref_LoadsAt(a) ==
    {ins \in Ref_Fetch(a) :
        /\ ins.memonic = "Move"
        /\ ins.operands[1].kind = "Register"
        /\ ins.operands[2].kind = "Memory" /\ ins.operands[2].reg = "None"}

\* C19: a write to an address mapped as a constant word or as a trampoline
\* fails with WriteToReadOnlyOrTrampoline and changes no mapping; a read or a
\* write of an unmapped address fails with UnmappedMemoryAccess; a writable
\* buffer accepts the write, and a read returns the word last written there
\* (nothing but an accepted write changes the map).
C19_MemoryMap ==
    [][ (rpc \in {"interpret", "resume"} /\ interp.state = "Running") =>
        /\ \A ins \in Ref_StoresAt(interp.eip) :
              LET a == ins.operands[1].bits
                  v == interp.regs[ins.operands[2].reg]
                  k == Ref_MappedAs(interp.mem, a)
              IN  /\ k \in {"value", "trampoline"} =>
                       /\ interp'.state = "Faulted"
                       /\ interp'.err = [kind |-> "WriteToReadOnlyOrTrampoline",
                                         address |-> a]
                       /\ interp'.mem = interp.mem
                  /\ k = "none" =>
                       /\ interp'.state = "Faulted"
                       /\ interp'.err = [kind |-> "UnmappedMemoryAccess", address |-> a]
                       /\ interp'.mem = interp.mem
                  /\ k = "writable" =>
                       /\ interp'.state = "Running"
                       /\ Ref_Word(interp'.mem, a) = v
                       /\ \A i \in DOMAIN interp.mem :
                             interp.mem[i].kind # "writable" =>
                                interp'.mem[i] = interp.mem[i]
        /\ \A ins \in Ref_LoadsAt(interp.eip) :
              LET a == ins.operands[2].bits
                  k == Ref_MappedAs(interp.mem, a)
              IN  /\ k = "none" =>
                       /\ interp'.state = "Faulted"
                       /\ interp'.err = [kind |-> "UnmappedMemoryAccess", address |-> a]
                  /\ k = "writable" =>
                       /\ interp'.state = "Running"
                       /\ interp'.regs[ins.operands[1].reg] = Ref_Word(interp.mem, a)
                  /\ k = "value" =>
                       /\ interp'.state = "Running"
                       /\ \E i \in DOMAIN interp.mem :
                             /\ interp.mem[i].addr = a
                             /\ interp'.regs[ins.operands[1].reg] = interp.mem[i].v
        /\ ( \A ins \in Ref_Fetch(interp.eip) :
                ~(ins.memonic \in {"Move", "Add", "Sar", "Pop"}
                  /\ ins.operands[1].kind = "Memory") )
           => interp'.mem = interp.mem
      ]_vars

\* A word was written to the buffer of _effects, read back, overwritten, and
\* the second read returned the second word.
C19_Witness ==
    /\ rpc = "interpret"
    /\ interp.state = "Halted"
    /\ interp.regs["EAX"] = <<0, 9>>
    /\ interp.regs["ECX"] = <<0, 9>>
    /\ Ref_Word(interp.mem, ShapeAddr(280)) = <<0, 9>>

\* The calls whose value the renderer knows how to return.
Ref_ValueCalls == {"@HARDNumLoaded@8", "@HardpointAngle@4", "_InsectWingAngle@0"}

\* The records of the shape that begin at interpreter address a.
Ref_RecordsAt(a) == {r \in DOMAIN sh.instrs : <<43520, sh.instrs[r].at>> = a}

\* C21: when interpret exits with the trampoline of @HARDNumLoaded@8,
\* @HardpointAngle@4 or _InsectWingAngle@0, the renderer sets EAX to 1, 256,
\* 256 and re-invokes interpret at the interpreter's eip; the second exit must
\* be the trampoline do_start_interp with one argument, and the record loop
\* then resumes at the record whose byte offset is that argument minus
\* 0xAA000000; every other second exit, and every other trampoline name in
\* the first exit, ends the call with an error.
C21_SecondExit ==
    [][ /\ ( /\ rpc = "interpret"
             /\ interp.state = "Suspended"
             /\ interp.exit.name \in Ref_ValueCalls )
           => ( /\ rpc' = "resume"
                /\ interp'.state = "Running"
                /\ interp'.regs["EAX"] =
                      (IF interp.exit.name = "@HARDNumLoaded@8"
                       THEN <<0, 1>> ELSE <<0, 256>>)
                /\ interp'.eip = interp.eip
                /\ roffset' = roffset /\ byte_offset' = byte_offset )
        /\ ( /\ rpc = "interpret"
             /\ interp.state = "Suspended"
             /\ interp.exit.name \notin Ref_ValueCalls \cup {"do_start_interp"} )
           => rpc' = "err"
        /\ ( rpc = "resume" /\ interp.state # "Running" )
           => IF /\ interp.state = "Suspended"
                 /\ interp.exit.name = "do_start_interp"
                 /\ Len(interp.exit.args) = 1
              THEN \A r \in Ref_RecordsAt(interp.exit.args[1]) :
                      /\ rpc' = "loop"
                      /\ roffset' = r - 1
                      /\ byte_offset' = sh.instrs[r].at
              ELSE rpc' = "err"
      ]_vars

\* A call of @HardpointAngle@4 or _InsectWingAngle@0 was resumed with EAX =
\* 256, the second exit was do_start_interp, and the record loop is back at
\* its head on the record after the X86Code record.
C21_Witness ==
    /\ rpc = "loop"
    /\ interp.state = "Suspended"
    /\ interp.exit.name = "do_start_interp"
    /\ interp.regs["EAX"] = <<0, 256>>
    /\ roffset = 1
    /\ byte_offset = sh.instrs[2].at
    /\ byte_offset > 0

\* The pointer stored in the code at relocation offset r.
Ref_PointerAt(r) ==
    << code[r + 3] + 256 * code[r + 4], code[r + 1] + 256 * code[r + 2] >>

\* The tag lies entirely within the code buffer.
Ref_TagInside(tag) == tag.offset >= 0 /\ tag.offset + tag.length <= Len(code)

\* The length the kind of a tag goes with.
Ref_TagLength(tag) == IF tag.kind = "RelocationTarget" THEN 2 ELSE 4

\* C22: whenever _apply_tags returns its tags, every relocation offset r it
\* handled has r + 4 <= len(code), every pointer read at a relocation that is
\* not a pointer into the thunk table resolves to an offset inside the code
\* and is tagged there, and every tag (RelocatedCall and RelocatedRef of
\* length 4, RelocationTarget of length 2) lies entirely within the code; the
\* tags CpuShape::new ends with lie within the code as well.
C22_TagsInsideCode ==
    /\ pc = "read" =>
          \A pe \in Images : \A t \in ImageTags(pe) :
             t # PanicTags =>
               /\ \A i \in DOMAIN pe.relocs : pe.relocs[i] + 4 <= Len(code)
               /\ \A i \in DOMAIN t :
                     Ref_TagInside(t[i]) /\ t[i].length = Ref_TagLength(t[i])
               /\ pe.thunks.some =>
                     \A i \in DOMAIN pe.relocs :
                        LET p == Ref_PointerAt(pe.relocs[i])
                            off == (p[1] - pe.code_vaddr[1]) * 65536
                                     + p[2] - pe.code_vaddr[2]
                        IN  \/ \E k \in pe.thunks.keys :
                                  k = p \/ k = U32Sub(p, 2).v
                            \/ /\ off \in 0 .. Len(code) - 1
                               /\ \E j \in DOMAIN t :
                                     /\ t[j].kind = "RelocationTarget"
                                     /\ t[j].offset = off
    /\ (pc = "done" /\ result = "Ok") =>
          \A i \in DOMAIN tags : Ref_TagInside(tags[i])

\* CpuShape::new returned with the tags of a relocation whose pointer leads
\* into the code: a RelocatedRef at the relocation and a RelocationTarget.
C22_Witness ==
    /\ pc = "done" /\ result = "Ok"
    /\ \E i, j \in DOMAIN tags :
          /\ tags[i].kind = "RelocatedRef"
          /\ tags[j].kind = "RelocationTarget"
          /\ tags[j].offset + 4 = Len(code)

\* The sum of size() over the records of the shape with index below n.
RECURSIVE Ref_SizeBelow(_)
Ref_SizeBelow(n) == IF n = 0 THEN 0 ELSE Ref_SizeBelow(n - 1) + sh.instrs[n].size

\* C27: at the head of every iteration of the record loop byte_offset is the
\* byte offset of sh.instrs[offset], the sum of size() over the records
\* below offset: after a fall-through step, after a skip of the ranged mode,
\* after every kind of jump and after the resumption that follows a
\* do_start_interp trampoline.
C27_ByteOffsetTracksRecord ==
    (rpc = "loop" /\ roffset < Len(sh.instrs)) => byte_offset = Ref_SizeBelow(roffset)

\* The loop is at its head on the second record, which it reached by the
\* jump of a JumpToDamage record in a damaged draw mode.
C27_Witness ==
    /\ rpc = "loop"
    /\ roffset = 1
    /\ draw_mode.damaged
    /\ sh.instrs[1].kind = "JumpToDamage"
    /\ damage_target = <<byte_offset>>
    /\ byte_offset = sh.instrs[1].size

\* The tag byte of record i: the byte of the code at the record's offset.
Ref_TagOfRecord(i) == code[instr[i].at + 1]

\* The record kinds that declare the tag byte b as their MAGIC.
Ref_KindsDeclaring(b) ==
    {DispatchChain[k].name : k \in {j \in DOMAIN DispatchChain : DispatchChain[j].magic = b}}

\* C28: the tag dispatch is a function under which every kind is reachable:
\* the tag of a decoded record is declared by one kind only, which is the
\* kind the record was decoded as, and a record that starts with tag 0x40 is
\* an Unk40 record.
C28_TagDispatch ==
    \A i \in DOMAIN instr :
       /\ Cardinality(Ref_KindsDeclaring(Ref_TagOfRecord(i))) <= 1
       /\ Ref_KindsDeclaring(Ref_TagOfRecord(i)) \subseteq {instr[i].kind}
       /\ Ref_TagOfRecord(i) = 64 => instr[i].kind = "Unk40"

\* C20: the record loop of add_shape_to_render ends on every shape: it
\* returns, with Ok, an error or a panic, also when the targets of the jump
\* records or of do_start_interp form a cycle.
C20_LoopTerminates == <>(rpc \in {"done", "err", "panic"})

-----------------------------------------------------------------------------
(* The terrain geometry buffer: render-wgpu/buffer/terrain_geo.  The detail
   levels fix the sizes of the buffers; the number of vertices of a patch
   subdivided d times is computed in floating point. *)

\* CpuDetailLevel::parameters: max-level, target-refinement, buffer-size.
CpuDetailLevel_parameters(level) ==
    IF level = "Low"
    THEN [max_level |-> 8, target_refinement |-> 150, desired_patch_count |-> 256]
    ELSE [max_level |-> 14, target_refinement |-> 150, desired_patch_count |-> 768]

\* GpuDetailLevel::parameters: subdivisions.
GpuDetailLevel_parameters(level) ==
    CASE level = "Low" -> 3
      [] level = "Medium" -> 5
      [] level = "High" -> 7

\* 2f64.powf(d as f64): a power of two, exact in an f64 for every d the
\* model reaches.
Powf2(d) == 2 ^ d

\* (x / 2.0).floor() as usize for an x that is a non-negative integer below
\* 2^53: the division and the floor are exact.
HalfFloor(x) == x \div 2

\* GpuDetailLevel::vertices_per_subdivision.
vertices_per_subdivision_Square(d) == HalfFloor((Powf2(d) + 1) * (Powf2(d) + 1))
vertices_per_subdivision(d) == HalfFloor((Powf2(d) + 1) * (Powf2(d) + 2))

\* TerrainGeoBuffer::new: `let subdivisions = 0` shadows the parameter of the
\* GPU detail level, and target_stride is the literal 6.
TerrainGeoBuffer_new ==
    /\ geo.built = FALSE
    /\ geo' = [geo EXCEPT
                 !.built = TRUE,
                 !.desired_patch_count =
                     CpuDetailLevel_parameters(geo.cpu_detail_level).desired_patch_count,
                 !.patch_windings =
                     CpuDetailLevel_parameters(geo.cpu_detail_level).desired_patch_count,
                 !.subdivisions = 0,
                 !.target_stride = 6]
    /\ UNCHANGED <<patch, subdiv>>
    /\ UNCHANGED <<shapeVars, disVars, renderVars, slotVars, uniformVars>>

\* TerrainGeoBuffer::patch_offset: assert!(patch_number >= 0), then
\* patch_number * target_stride.
patch_offset ==
    /\ geo.built
    /\ \E patch_number \in -1 .. MaxPatches :
          patch' = IF patch_number >= 0
                   THEN [patch_number |-> patch_number, result |-> "Ok",
                         offset |-> patch_number * geo.target_stride]
                   ELSE [patch_number |-> patch_number, result |-> "panic",
                         offset |-> 0]
    /\ UNCHANGED <<geo, subdiv>>
    /\ UNCHANGED <<shapeVars, disVars, renderVars, slotVars, uniformVars>>

\* test_subdivision_vertex_counts: the values the test expects.
expect == <<3, 6, 15, 45, 153, 561, 2145, 8385>>

\* One turn of `for (i, &value) in expect.iter().enumerate()`: the assert_eq!
\* on vertices_per_subdivision(i).
TestSubdivisionStep ==
    /\ subdiv.status = "run"
    /\ subdiv.i < Len(expect)
    /\ LET v == vertices_per_subdivision(subdiv.i) IN
       subdiv' = [i |-> IF v = expect[subdiv.i + 1] THEN subdiv.i + 1 ELSE subdiv.i,
                  d |-> subdiv.i,
                  value |-> v,
                  status |-> IF v = expect[subdiv.i + 1] THEN "run" ELSE "panic"]
    /\ UNCHANGED <<geo, patch>>
    /\ UNCHANGED <<shapeVars, disVars, renderVars, slotVars, uniformVars>>

\* The loop of the test is over: the test passes.
TestSubdivisionPasses ==
    /\ subdiv.status = "run"
    /\ ~(subdiv.i < Len(expect))
    /\ subdiv' = [subdiv EXCEPT !.status = "ok"]
    /\ UNCHANGED <<geo, patch>>
    /\ UNCHANGED <<shapeVars, disVars, renderVars, slotVars, uniformVars>>

\* The detail levels a terrain buffer is built for, and the test at its start.
InitTerrain ==
    /\ ShapeIdle
    /\ DisIdle
    /\ RenderIdle
    /\ SlotIdle
    /\ UniformIdle
    /\ \E cpu \in {"Low", "Medium"} : \E gpu \in {"Low", "Medium", "High"} :
          geo = [built |-> FALSE, cpu_detail_level |-> cpu, gpu_detail_level |-> gpu,
                 desired_patch_count |-> 0, patch_windings |-> 0,
                 subdivisions |-> GpuDetailLevel_parameters(gpu), target_stride |-> 0]
    /\ patch = <<>>
    /\ subdiv = [i |-> 0, d |-> -1, value |-> 0, status |-> "run"]

NextTerrain ==
    \/ TerrainGeoBuffer_new
    \/ patch_offset
    \/ TestSubdivisionStep
    \/ TestSubdivisionPasses

SpecTerrain == InitTerrain /\ [][NextTerrain]_vars

\* C23: vertices_per_subdivision(d) is (2^d + 1) * (2^d + 2) / 2 for every d
\* in 0..7: the values 3, 6, 15, 45, 153, 561, 2145, 8385 in that order, so
\* that no assert_eq! of the test fails.
C23_VertexCounts ==
    /\ subdiv.status # "panic"
    /\ subdiv.d \in 0 .. 7 =>
          /\ 2 * subdiv.value = (2 ^ subdiv.d + 1) * (2 ^ subdiv.d + 2)
          /\ subdiv.d = 0 => subdiv.value = 3
          /\ subdiv.d = 1 => subdiv.value = 6
          /\ subdiv.d = 2 => subdiv.value = 15
          /\ subdiv.d = 3 => subdiv.value = 45
          /\ subdiv.d = 4 => subdiv.value = 153
          /\ subdiv.d = 5 => subdiv.value = 561
          /\ subdiv.d = 6 => subdiv.value = 2145
          /\ subdiv.d = 7 => subdiv.value = 8385

\* The test went through all eight subdivision levels and passed.
C23_Witness ==
    /\ subdiv.status = "ok"
    /\ subdiv.d = 7
    /\ subdiv.value = 8385

-----------------------------------------------------------------------------
(* The instance blocks of render/draw/shape_instance: every entity that is
   drawn holds an upload slot in a block of the chunk of its shape. *)

\* BLOCK_SIZE is 128; the blocks of the model hold three slots, enough for a
\* block to fill up and for a slot to be left behind.
BLOCK_SIZE == MaxSlots

\* An Option as a sequence: None is <<>>, Some(x) is <<x>>.
None == <<>>
Some(x) == <<x>>

\* The index that stands for the error of ensure_entity_slot.
Err == <<-1, -1>>

\* DynamicInstanceBlock::new: no slot is reserved.
DynamicInstanceBlock_new(chunk_index) ==
    [chunk_index |-> chunk_index,
     slot_reservations |-> [i \in 1 .. BLOCK_SIZE |-> None],
     entity_to_slot_map |-> <<>>]

\* DynamicInstanceBlock::reserve_slot_for: slots are counted from 0.
reserve_slot_for(block, slot, id) ==
    [block EXCEPT
       !.slot_reservations[slot + 1] = Some(id),
       !.entity_to_slot_map =
           [e \in DOMAIN block.entity_to_slot_map \cup {id} |->
               IF e = id THEN slot ELSE block.entity_to_slot_map[e]]]

\* DynamicInstanceBlock::find_free_slot: the first slot holding None.
find_free_slot(block) ==
    LET free == {i \in 1 .. BLOCK_SIZE : block.slot_reservations[i] = None} IN
    IF free = {} THEN None
    ELSE Some((CHOOSE i \in free : \A j \in free : i <= j) - 1)

\* DynamicInstanceBlock::reserve_free_slot: the block after the call and the
\* Option<SlotIndex> it returns.
block_reserve_free_slot(block, id, chunk_index) ==
    IF chunk_index # block.chunk_index THEN [block |-> block, slot |-> None]
    ELSE LET maybe_slot_index == find_free_slot(block) IN
         IF maybe_slot_index # None
         THEN [block |-> reserve_slot_for(block, maybe_slot_index[1], id),
               slot |-> maybe_slot_index]
         ELSE [block |-> block, slot |-> None]

\* DynamicInstanceBlock::get_existing_slot.
get_existing_slot(block, id) == block.entity_to_slot_map[id]

\* ShapeChunkManager::find_chunk_for_shape: the chunk the shape was uploaded
\* to, or None for the error of a shape that was not uploaded.
find_chunk_for_shape(shape_id) ==
    IF shape_id \in DOMAIN chunks THEN Some(chunks[shape_id]) ELSE None

\* The first block, counted from 0, whose reserve_free_slot returns a slot.
FirstFit(id, chunk_index) ==
    LET fits == {b \in DOMAIN blocks :
                    block_reserve_free_slot(blocks[b], id, chunk_index).slot # None}
    IN  IF fits = {} THEN None
        ELSE Some((CHOOSE b \in fits : \A c \in fits : b <= c) - 1)

\* ShapeRenderer::reserve_free_slot: a slot of the first block that has one
\* is reserved and returned; only when a new block is built is the entity
\* entered into upload_block_map.
reserve_free_slot(id, shape_id) ==
    LET chunk == find_chunk_for_shape(shape_id) IN
    IF chunk = None
    THEN /\ slot_call' = [slot_call EXCEPT ![id] = Err]
         /\ UNCHANGED <<blocks, upload_block_map>>
    ELSE LET fit == FirstFit(id, chunk[1]) IN
         IF fit # None
         THEN LET r == block_reserve_free_slot(blocks[fit[1] + 1], id, chunk[1]) IN
              /\ blocks' = [blocks EXCEPT ![fit[1] + 1] = r.block]
              /\ slot_call' = [slot_call EXCEPT ![id] = <<fit[1], r.slot[1]>>]
              /\ UNCHANGED upload_block_map
         ELSE LET next_block_index == Len(blocks)
                  r == block_reserve_free_slot(DynamicInstanceBlock_new(chunk[1]),
                                               id, chunk[1])
              IN  /\ Len(blocks) < MaxBlocks
                  /\ blocks' = Append(blocks, r.block)
                  /\ upload_block_map' =
                        [e \in DOMAIN upload_block_map \cup {id} |->
                            IF e = id THEN next_block_index ELSE upload_block_map[e]]
                  /\ slot_call' = [slot_call EXCEPT
                                     ![id] = <<next_block_index, r.slot[1]>>]

\* ShapeRenderer::ensure_entity_slot, as ShapeRenderSystem::run calls it for
\* an entity and the shape of its ShapeMesh.
ensure_entity_slot ==
    \E id \in DOMAIN world :
       /\ IF id \in DOMAIN upload_block_map
          THEN LET block_index == upload_block_map[id] IN
               /\ slot_call' = [slot_call EXCEPT
                                  ![id] = <<block_index,
                                            get_existing_slot(blocks[block_index + 1], id)>>]
               /\ UNCHANGED <<blocks, upload_block_map>>
          ELSE reserve_free_slot(id, world[id])
       /\ UNCHANGED <<world, chunks>>
       /\ UNCHANGED <<shapeVars, disVars, renderVars, terrainVars, uniformVars>>

\* The worlds of the model: every entity has one of two shapes; the shapes
\* were uploaded to one chunk, to two chunks, or the second one not at all.
InitSlots ==
    /\ ShapeIdle
    /\ DisIdle
    /\ RenderIdle
    /\ TerrainIdle
    /\ UniformIdle
    /\ world \in [1 .. MaxEntities -> {1, 2}]
    /\ chunks \in {[s \in {1, 2} |-> 0], [s \in {1, 2} |-> s - 1], [s \in {1} |-> 0]}
    /\ blocks = <<>>
    /\ upload_block_map = <<>>
    /\ slot_call = [e \in 1 .. MaxEntities |-> None]

NextSlots == ensure_entity_slot

SpecSlots == InitSlots /\ [][NextSlots]_vars

\* The (block, slot) pairs, counted from 0, that hold entity id.
Ref_SlotsOf(bs, id) ==
    UNION {{<<b - 1, s - 1>> :
              s \in {t \in DOMAIN bs[b].slot_reservations :
                        bs[b].slot_reservations[t] = <<id>>}} :
           b \in DOMAIN bs}

\* C24: ensure_entity_slot is idempotent: once an entity has received a
\* slot, every further call for it returns the (BlockIndex, SlotIndex) it
\* got before and reserves no further slot, so that the entity occupies at
\* most one slot across all blocks.
C24_Idempotent ==
    [][ \A id \in DOMAIN world :
           Ref_SlotsOf(blocks, id) # {} =>
              /\ slot_call'[id] = slot_call[id]
              /\ Ref_SlotsOf(blocks', id) = Ref_SlotsOf(blocks, id)
              /\ Cardinality(Ref_SlotsOf(blocks', id)) <= 1
      ]_vars

\* C25: in every block slot_reservations and entity_to_slot_map are inverse
\* to each other, at most BLOCK_SIZE slots are reserved, no two entities
\* share a (block, slot) pair, and every entity of upload_block_map has a
\* slot in the block it is mapped to.
C25_SlotMapsInverse ==
    /\ \A b \in DOMAIN blocks :
          /\ \A s \in DOMAIN blocks[b].slot_reservations : \A e \in DOMAIN world :
                blocks[b].slot_reservations[s] = <<e>>
                  <=> ( /\ e \in DOMAIN blocks[b].entity_to_slot_map
                        /\ blocks[b].entity_to_slot_map[e] = s - 1 )
          /\ Cardinality({s \in DOMAIN blocks[b].slot_reservations :
                             blocks[b].slot_reservations[s] # <<>>}) <= BLOCK_SIZE
    /\ \A e1, e2 \in DOMAIN world :
          e1 # e2 => Ref_SlotsOf(blocks, e1) \cap Ref_SlotsOf(blocks, e2) = {}
    /\ \A e \in DOMAIN upload_block_map :
          /\ upload_block_map[e] + 1 \in DOMAIN blocks
          /\ e \in DOMAIN blocks[upload_block_map[e] + 1].entity_to_slot_map

-----------------------------------------------------------------------------
(* The shape renderer of render/draw/shape: before every frame the transforms
   of the registered instances are gathered into one uniform array. *)

\* MAX_XFORMS and UNIFORM_POOL_SIZE.
MAX_XFORMS == 14
UNIFORM_POOL_SIZE == MAX_XFORMS * 6

\* The transform states apply_animation leaves in an instance: a map from
\* the id of a transform, below MAX_XFORMS, to its six values (all 1 here).
TransformStates == UNION {[ids -> {1}] : ids \in SUBSET {0, MAX_XFORMS - 1}}

\* ShapeRenderer::add_shape_to_render: the new instance has no transform
\* state and gets the next handle.
ShapeRenderer_add_shape_to_render ==
    /\ upc = "idle"
    /\ last_instance_handle < MaxInstances
    /\ LET instance_handle == last_instance_handle + 1 IN
       /\ last_instance_handle' = last_instance_handle + 1
       /\ instances' = [h \in DOMAIN instances \cup {instance_handle} |->
                           IF h = instance_handle THEN <<>> ELSE instances[h]]
    /\ UNCHANGED <<uniforms, uniforms_offset, pending, upc>>
    /\ UNCHANGED <<shapeVars, disVars, renderVars, terrainVars, slotVars>>

\* ShapeRenderer::animate: every instance takes the transform states of
\* apply_animation.
ShapeRenderer_animate ==
    /\ upc = "idle"
    /\ instances # <<>>
    /\ instances' \in [DOMAIN instances -> TransformStates]
    /\ UNCHANGED <<last_instance_handle, uniforms, uniforms_offset, pending, upc>>
    /\ UNCHANGED <<shapeVars, disVars, renderVars, terrainVars, slotVars>>

\* ShapeRenderer::before_render is entered: the array is zeroed, the offset
\* is 0, the loop over instances.values() has every instance before it.
BeforeRenderEnter ==
    /\ upc = "idle"
    /\ uniforms' = [i \in 1 .. UNIFORM_POOL_SIZE |-> 0]
    /\ uniforms_offset' = 0
    /\ pending' = DOMAIN instances
    /\ upc' = "loop"
    /\ UNCHANGED <<instances, last_instance_handle>>
    /\ UNCHANGED <<shapeVars, disVars, renderVars, terrainVars, slotVars>>

\* The indices ShapeInstance::before_render writes for the transform states
\* xs at an offset: uniforms_offset + COUNT * xform_id + i, i in 0..COUNT-1.
UniformWrites(xs, at) ==
    {at + (6 * xform_id) + i : xform_id \in DOMAIN xs, i \in 0 .. 5}

\* ShapeInstance::before_render for the next instance of the loop, in the
\* order of the HashMap: assert_eq!(*uniforms_offset, 0), the writes, then
\* *uniforms_offset += UNIFORM_POOL_SIZE.
ShapeInstance_before_render ==
    /\ upc = "loop"
    /\ \E h \in pending :
          /\ pending' = pending \ {h}
          /\ IF uniforms_offset # 0
             THEN upc' = "panic" /\ UNCHANGED <<uniforms, uniforms_offset>>
             ELSE IF \E w \in UniformWrites(instances[h], uniforms_offset) :
                        ~(w < UNIFORM_POOL_SIZE)
             THEN upc' = "panic" /\ UNCHANGED <<uniforms, uniforms_offset>>
             ELSE /\ uniforms' =
                       [i \in 1 .. UNIFORM_POOL_SIZE |->
                          IF i - 1 \in UniformWrites(instances[h], uniforms_offset)
                          THEN instances[h][(i - 1 - uniforms_offset) \div 6]
                          ELSE uniforms[i]]
                  /\ uniforms_offset' = uniforms_offset + UNIFORM_POOL_SIZE
                  /\ upc' = "loop"
    /\ UNCHANGED <<instances, last_instance_handle>>
    /\ UNCHANGED <<shapeVars, disVars, renderVars, terrainVars, slotVars>>

\* The loop is over: the array is handed to the upload pool and
\* before_render returns.
BeforeRenderReturns ==
    /\ upc = "loop"
    /\ pending = {}
    /\ upc' = "idle"
    /\ UNCHANGED <<instances, last_instance_handle, uniforms, uniforms_offset, pending>>
    /\ UNCHANGED <<shapeVars, disVars, renderVars, terrainVars, slotVars>>

\* ShapeRenderer::new: no instance is registered.
InitUniforms ==
    /\ ShapeIdle
    /\ DisIdle
    /\ RenderIdle
    /\ TerrainIdle
    /\ SlotIdle
    /\ instances = <<>>
    /\ last_instance_handle = 0
    /\ uniforms = <<>>
    /\ uniforms_offset = 0
    /\ pending = {}
    /\ upc = "idle"

NextUniforms ==
    \/ ShapeRenderer_add_shape_to_render
    \/ ShapeRenderer_animate
    \/ BeforeRenderEnter
    \/ ShapeInstance_before_render
    \/ BeforeRenderReturns

SpecUniforms == InitUniforms /\ [][NextUniforms]_vars

\* C26: ShapeRenderer::before_render completes without an assertion failure
\* for any number of registered instances: uniforms_offset is 0 at every
\* ShapeInstance::before_render call, and the uniform array is never written
\* outside its UNIFORM_POOL_SIZE entries.
C26_BeforeRenderCompletes ==
    /\ upc # "panic"
    /\ (upc = "loop" /\ pending # {}) => uniforms_offset = 0
    /\ upc = "loop" => Len(uniforms) = 84


=============================================================================
